---- MODULE Spec2Model ----
(***************************************************************************)
(* Turn coordinator of the two-user chat (ClienteChat), its message        *)
(* envelope (Mensaje / Cabecera) and the connection it writes frames on.   *)
(*                                                                         *)
(* Every per-participant variable is a function over Peers.  A byte string *)
(* is a sequence of numbers.  The packed header is modelled field by       *)
(* field: one cell of the sequence per field of Cabecera.STRUCT_FMT, in    *)
(* the order of the format, followed by the payload bytes.                 *)
(***************************************************************************)
EXTENDS Integers, Sequences, FiniteSets, TLC

\* ---------------------------------------------------------------- bounds
\* Largest id the generator hands out in the model.
MaxId == 2
\* Frames one direction of the connection buffers before sendall blocks.
MaxConn == 1
\* Threads that construct messages concurrently, and constructions in all.
MaxHilos == 3
MaxCons == 4
\* Frames passed to enviar_bytes on one connection.
MaxTramas == 3
\* Longest payload of the encode / decode exercise (besides the one that is
\* one byte too long for the header).
MaxLen == 2
\* Most bytes that follow the header in a frame handed to decodificar.
MaxCola == 3

\* ------------------------------------------------------------- constants
Peers == {"A", "B"}
Otro(p) == IF p = "A" THEN "B" ELSE "A"

\* Python's None, for the two turn fields and for an omitted id_mensaje.
None == -1

TIPO_ENVIO == 1
TIPO_RECIBIDO == 2
TIPO_LEIDO == 3
TIPO_ERROR == 4
TIPO_RESPUESTA == 5
Tipos == {TIPO_ENVIO, TIPO_RECIBIDO, TIPO_LEIDO, TIPO_ERROR, TIPO_RESPUESTA}

\* EstadoMensaje: Enum with auto() values.
ENVIADO == 1
RECIBIDO == 2
LEIDO == 3

\* protocol_id default of ClienteChat (0x215A).
PROTOCOL_ID == 8538
\* The value time.time() returns while the model runs (never 0).
Ahora == 7
\* Cells of the packed header: one per field of STRUCT_FMT '!B H B B d I H I'.
HEADER_SIZE == 8

\* The texts the user types, as UTF-8 bytes: "o" and "ok".
Textos == { <<111>>, <<111, 107>> }

Min(a, b) == IF a < b THEN a ELSE b

\* --------------------------------------------------------------- CRC-32
\* zlib.crc32(b) & 0xffffffff.  A 32-bit value is kept as << high 16 bits,
\* low 16 bits >>.  The computation is the bitwise one of zlib: the register
\* starts as all ones; each byte is xored into its low 8 bits and followed by
\* 8 shifts to the right, each xoring the reflected polynomial 0xEDB88320
\* when the bit shifted out is 1; the result is the complement of the
\* register.
POLINOMIO == << 60856, 33568 >>

Bit(n, i) == (n \div (2 ^ i)) % 2

RECURSIVE Xor(_, _)
Xor(a, b) ==
  IF a = 0 THEN b
  ELSE IF b = 0 THEN a
  ELSE (((a % 2) + (b % 2)) % 2) + 2 * Xor(a \div 2, b \div 2)

CrcDesplaza(c) ==
  IF c[2] % 2 = 1
  THEN << Xor(c[1] \div 2, POLINOMIO[1]),
          Xor((c[2] \div 2) + (c[1] % 2) * 32768, POLINOMIO[2]) >>
  ELSE << c[1] \div 2, (c[2] \div 2) + (c[1] % 2) * 32768 >>

CrcByte(c, b) ==
  CrcDesplaza(CrcDesplaza(CrcDesplaza(CrcDesplaza(
    CrcDesplaza(CrcDesplaza(CrcDesplaza(CrcDesplaza(
      << c[1], Xor(c[2], b) >>))))))))

\* The register after bytes i..j of b, taken in order: the first half, then
\* the second (the comparison has m computed before the second half starts).
RECURSIVE CrcBytes(_, _, _, _)
CrcBytes(c, b, i, j) ==
  IF i > j THEN c
  ELSE IF i = j THEN CrcByte(c, b[i])
  ELSE LET m == CrcBytes(c, b, i, (i + j) \div 2)
       IN IF m = c /\ i > j THEN c ELSE CrcBytes(m, b, ((i + j) \div 2) + 1, j)

crc32_calc(b) ==
  LET c == CrcBytes(<< 65535, 65535 >>, b, 1, Len(b))
  IN << 65535 - c[1], 65535 - c[2] >>

\* The longest payload the 2-byte longitud_carga can declare, and a payload
\* one byte longer (zero bytes).
MAX_CARGA == 65535
CargaLarga == [i \in 1..(MAX_CARGA + 1) |-> 0]

\* The CRCs of the byte strings the coordinator's frames carry are computed
\* once.  The CRC of the long payload, 0xD7978EEB, is the value crc32_calc
\* gives for it (65536 bytes take it several seconds).
Frecuentes == { << >>, <<111>>, <<111, 107>>, <<107>> }
TablaCrc == [b \in Frecuentes |-> crc32_calc(b)]
CrcCargaLarga == << 55191, 36587 >>

crc32(b) ==
  IF Len(b) <= MAX_CARGA
  THEN IF b \in Frecuentes THEN TablaCrc[b] ELSE crc32_calc(b)
  ELSE IF b = CargaLarga THEN CrcCargaLarga ELSE crc32_calc(b)

\* data[i:j] of Python (0-based, end exclusive, clipped to the data).
Slice(data, i, j) == SubSeq(data, i + 1, Min(j, Len(data)))

\* ------------------------------------------------------------- Cabecera
\* Cabecera.__init__: a falsy marca_tiempo is replaced by the current time.
Cabecera(version, id_protocolo, tipo_operacion, prioridad, marca_tiempo, id_mensaje, longitud_carga, crc) ==
  [ version |-> version,
    id_protocolo |-> id_protocolo,
    tipo_operacion |-> tipo_operacion,
    prioridad |-> prioridad,
    marca_tiempo |-> IF marca_tiempo # 0 THEN marca_tiempo ELSE Ahora,
    id_mensaje |-> id_mensaje,
    longitud_carga |-> longitud_carga,
    crc32 |-> crc ]

\* Variant of a_bytes: prioridad is not packed.
a_bytes_SinPrioridad(c) ==
  << c.version, c.id_protocolo, c.tipo_operacion, 0,
     c.marca_tiempo, c.id_mensaje, c.longitud_carga, c.crc32 >>

\* struct.pack raises struct.error unless every field fits its format:
\* B in 0..255, H in 0..65535, I in 0..2^32-1 (every id of the model is
\* below that).
empaquetable(c) ==
  /\ c.version \in 0..255
  /\ c.id_protocolo \in 0..65535
  /\ c.tipo_operacion \in 0..255
  /\ c.prioridad \in 0..255
  /\ c.id_mensaje >= 0
  /\ c.longitud_carga \in 0..MAX_CARGA
  /\ c.crc32[1] \in 0..65535 /\ c.crc32[2] \in 0..65535

\* Cabecera.a_bytes: struct.pack of the eight fields in format order.
a_bytes(c) ==
  << c.version, c.id_protocolo, c.tipo_operacion, c.prioridad,
     c.marca_tiempo, c.id_mensaje, c.longitud_carga, c.crc32 >>

\* Cabecera.desde_bytes: struct.unpack, then cls(*campos).
desde_bytes(campos) ==
  Cabecera(campos[1], campos[2], campos[3], campos[4],
           campos[5], campos[6], campos[7], campos[8])

\* -------------------------------------------------------------- Mensaje
\* Mensaje.__init__ once the id is known (given, or drawn from _next_id).
MensajeConPrioridad(texto, id_protocolo, prioridad, id_mensaje, tipo_operacion) ==
  [ payload |-> texto,
    id_protocolo |-> id_protocolo,
    prioridad |-> prioridad,
    id_mensaje |-> id_mensaje,
    crc32 |-> crc32(texto),
    cabecera |-> Cabecera(1, id_protocolo,
                          IF tipo_operacion # None THEN tipo_operacion
                                                   ELSE TIPO_ENVIO,
                          prioridad, Ahora, id_mensaje, Len(texto), crc32(texto)) ]

\* The same with prioridad left at its default, 0.
Mensaje(texto, id_protocolo, id_mensaje, tipo_operacion) ==
  MensajeConPrioridad(texto, id_protocolo, 0, id_mensaje, tipo_operacion)

\* The id Mensaje.__init__ uses, and the generator after the construction.
IdDe(id_mensaje, siguiente) ==
  IF id_mensaje = None THEN siguiente ELSE id_mensaje

\* Variant of SiguienteTras: every construction draws from the generator.
SiguienteTras_Siempre(id_mensaje, siguiente) == siguiente + 1

SiguienteTras(id_mensaje, siguiente) ==
  IF id_mensaje = None THEN siguiente + 1 ELSE siguiente

\* Mensaje.codificar: header bytes followed by the payload.
codificar(m) == a_bytes(m.cabecera) \o m.payload

\* Variant of decodificar: the CRC of the payload is not compared.
decodificar_SinCrc(data) ==
  IF Len(Slice(data, 0, HEADER_SIZE)) # HEADER_SIZE
  THEN [ ok |-> FALSE, error |-> "struct", mensaje |-> <<>> ]
  ELSE LET header == desde_bytes(Slice(data, 0, HEADER_SIZE))
           payload == Slice(data, HEADER_SIZE,
                            HEADER_SIZE + header.longitud_carga)
       IN [ ok |-> TRUE, error |-> "",
            mensaje |-> [ payload |-> payload,
                          id_protocolo |-> header.id_protocolo,
                          prioridad |-> header.prioridad,
                          id_mensaje |-> header.id_mensaje,
                          crc32 |-> header.crc32,
                          cabecera |-> header ] ]

\* Mensaje.decodificar: ok = FALSE stands for the exception it raises
\* (struct.error on a short header, ValueError on a CRC mismatch).
decodificar(data) ==
  IF Len(Slice(data, 0, HEADER_SIZE)) # HEADER_SIZE
  THEN [ ok |-> FALSE, error |-> "struct", mensaje |-> <<>> ]
  ELSE LET header == desde_bytes(Slice(data, 0, HEADER_SIZE))
           payload == Slice(data, HEADER_SIZE,
                            HEADER_SIZE + header.longitud_carga)
       IN IF crc32(payload) # header.crc32
          THEN [ ok |-> FALSE, error |-> "crc", mensaje |-> <<>> ]
          ELSE [ ok |-> TRUE, error |-> "",
                 mensaje |-> [ payload |-> payload,
                               id_protocolo |-> header.id_protocolo,
                               prioridad |-> header.prioridad,
                               id_mensaje |-> header.id_mensaje,
                               crc32 |-> header.crc32,
                               cabecera |-> header ] ]

\* ClienteChat._crear_control: a control message with an empty payload.
crear_control(id_mensaje, tipo) ==
  LET msg == Mensaje(<<>>, PROTOCOL_ID, id_mensaje, tipo)
  IN [ msg EXCEPT !.payload = <<>>,
                  !.cabecera.longitud_carga = 0,
                  !.cabecera.crc32 = crc32(<<>>) ]

\* A local variable that holds no message yet.
SinMensaje == [ id_mensaje |-> None ]

\* No call of decodificar has returned yet.
SinDecodificar == [ ok |-> FALSE, error |-> "", mensaje |-> << >> ]

\* ---------------------------------------------------------------- state
VARIABLES
  waiting_for_response_id, \* [Peers -> id or None]
  pending_request_id,      \* [Peers -> id or None]
  estados,                 \* [Peers -> dict id -> EstadoMensaje]
  next_id,                 \* [Peers -> Mensaje._next_id of that process]
  conn,                    \* [Peers -> frames written by the peer, unread]
  pcEnviar,                \* [Peers -> position of the enviar_texto call]
  locEnviar,               \* [Peers -> its locals (texto, mensaje) and the
                           \*  record of the running call: the turn fields
                           \*  and the generator when it began (antes),
                           \*  the frames it has written (tramas)]
  pcBucle,                 \* [Peers -> position of _bucle_recepcion]
  locBucle,                \* [Peers -> its locals (data, mensaje, ack) and
                           \*  the record of the iteration: the turn fields
                           \*  when the frame was taken (antes), the frames
                           \*  the iteration has written (tramas)]
  salida,                  \* [Peers -> the last line printed]
  id_lock,                 \* Mensaje._id_lock: the thread holding it, or None
  pcMsg,                   \* [Hilos -> position inside Mensaje.__init__]
  locMsg,                  \* [Hilos -> the id_mensaje it has read]
  emitidos,                \* the ids handed out, in the order they were read
  stop_event,              \* [Peers -> BOOLEAN], the stop flag
  sock,                    \* [Peers -> "abierto" or "cerrado"], gestor.conn
  enlace,                  \* [Peers -> "ok", "eof" (the peer closed) or "roto"]
  pcDetener,               \* [Peers -> position inside detener / stop]
  temporizadores,          \* [Peers -> ids whose LEIDO timer is running]
  lock_send,               \* GestorSocket.lock_send: the thread holding it, or "libre"
  pcTx,                    \* [Emisores -> position inside enviar_bytes]
  locTx,                   \* [Emisores -> the bytes sendall has still to write]
  enviadas,                \* contents passed to enviar_bytes, in lock order
  flujo,                   \* every byte written to the connection so far
  cerradoTx,               \* the sending side has closed the connection
  leidos,                  \* how many bytes of flujo the receiver has consumed
  pcRx,                    \* the receiver's position inside recibir_bytes
  locRx,                   \* n and datos of the running _recibir_exactamente
  entregados,              \* what the calls of recibir_bytes returned, in order
  pcCodec,                 \* position of the encode / decode exercise
  original,                \* the message created
  codificado,              \* its encoding, possibly damaged afterwards
  decodificado,            \* what decodificar made of codificado
  recodificado             \* the encoding of the message decodificar returned

\* Threads that construct fresh messages concurrently in one process.
Hilos == 1..MaxHilos

\* The state next to the coordinator, which the coordinator's steps leave alone.
gen == << id_lock, pcMsg, locMsg, emitidos >>
cierre == << stop_event, sock, enlace, pcDetener, temporizadores >>
cable == << lock_send, pcTx, locTx, enviadas, flujo, cerradoTx, leidos, pcRx, locRx, entregados >>
codec == << pcCodec, original, codificado, decodificado, recodificado >>
aparte == << gen, cierre, cable, codec >>
sinGen == << cierre, cable, codec >>
sinCierre == << gen, cable, codec >>
sinCable == << gen, cierre, codec >>
sinCodec == << gen, cierre, cable >>

\* The threads of one process that call enviar_bytes on the same connection:
\* the receive loop (ACK), the foreground (REQUEST, RESPONSE), a timer (LEIDO).
Emisores == {"bucle", "principal", "timer"}

vars == << waiting_for_response_id, pending_request_id, estados, next_id,
           conn, pcEnviar, locEnviar, pcBucle, locBucle, salida, aparte >>

turno == << waiting_for_response_id, pending_request_id >>

Antes(w, p, n) == [ w |-> w, p |-> p, n |-> n ]
LocEnviar0 == [ texto |-> <<>>, mensaje |-> SinMensaje, antes |-> Antes(None, None, 0), tramas |-> <<>> ]
LocBucle0 == [ data |-> <<>>, mensaje |-> SinMensaje, ack |-> SinMensaje, antes |-> Antes(None, None, 0), tramas |-> <<>> ]
Linea(que, id, texto) == [ que |-> que, id |-> id, texto |-> texto ]

Init ==
  /\ waiting_for_response_id = [p \in Peers |-> None]
  /\ pending_request_id = [p \in Peers |-> None]
  /\ estados = [p \in Peers |-> << >>]
  /\ next_id = [p \in Peers |-> 1]
  /\ conn = [p \in Peers |-> << >>]
  /\ pcEnviar = [p \in Peers |-> "listo"]
  /\ locEnviar = [p \in Peers |-> LocEnviar0]
  /\ pcBucle = [p \in Peers |-> "recibir"]
  /\ locBucle = [p \in Peers |-> LocBucle0]
  /\ salida = [p \in Peers |-> Linea("", None, <<>>)]
  /\ id_lock = None
  /\ pcMsg = [t \in Hilos |-> "fuera"]
  /\ locMsg = [t \in Hilos |-> None]
  /\ emitidos = << >>
  /\ stop_event = [p \in Peers |-> FALSE]
  /\ sock = [p \in Peers |-> "abierto"]
  /\ enlace = [p \in Peers |-> "ok"]
  /\ pcDetener = [p \in Peers |-> "no"]
  /\ temporizadores = [p \in Peers |-> {}]
  /\ lock_send = "libre"
  /\ pcTx = [e \in Emisores |-> "fuera"]
  /\ locTx = [e \in Emisores |-> << >>]
  /\ enviadas = << >>
  /\ flujo = << >>
  /\ cerradoTx = FALSE
  /\ leidos = 0
  /\ pcRx = "fuera"
  /\ locRx = [n |-> 0, datos |-> << >>]
  /\ entregados = << >>
  /\ pcCodec = "crear"
  /\ original = SinMensaje
  /\ codificado = << >>
  /\ decodificado = SinDecodificar
  /\ recodificado = << >>

\* dict assignment d[k] = v.
Poner(d, k, v) == [i \in DOMAIN d \cup {k} |-> IF i = k THEN v ELSE d[i]]

\* GestorSocket.enviar_bytes: the frame is appended whole to the stream.
enviar_bytes(c, self, data) == [c EXCEPT ![self] = Append(@, data)]

\* sendall returns once the socket buffer has taken the frame; it needs the
\* local socket open and the connection not broken.
PuedeEnviar(self) ==
  /\ Len(conn[self]) < MaxConn
  /\ sock[self] = "abierto"
  /\ enlace[self] # "roto"

\* sendall raises: the local socket was closed, or the connection is broken
\* or was closed by the peer.
FallaEnviar(self) == sock[self] = "cerrado" \/ enlace[self] \in {"eof", "roto"}

\* ------------------------------------------------- ClienteChat.enviar_texto
\* The call itself: the foreground thread enters enviar_texto(texto).
EnviarLlamar(self, texto) ==
  /\ pcEnviar[self] = "listo"
  /\ next_id[self] <= MaxId
  /\ pcEnviar' = [pcEnviar EXCEPT ![self] = "chk_pending"]
  /\ locEnviar' = [locEnviar EXCEPT ![self] =
                     [LocEnviar0 EXCEPT !.texto = texto,
                                        !.antes = Antes(waiting_for_response_id[self],
                                                        pending_request_id[self],
                                                        next_id[self])]]
  /\ UNCHANGED << turno, estados, next_id, conn, pcBucle, locBucle, salida >>
  /\ UNCHANGED aparte

\* Line 116: if self.pending_request_id is not None.
EnviarChkPending(self) ==
  /\ pcEnviar[self] = "chk_pending"
  /\ pcEnviar' = [pcEnviar EXCEPT ![self] =
                    IF pending_request_id[self] # None THEN "mk_resp"
                                                       ELSE "chk_waiting"]
  /\ UNCHANGED << turno, estados, next_id, conn, locEnviar, pcBucle, locBucle, salida >>
  /\ UNCHANGED aparte

\* Variant of EnviarMkResp: the answer is built without id_mensaje, so it
\* draws a new id instead of reusing the pending one.
EnviarMkResp_IdNuevo(self) ==
  /\ pcEnviar[self] = "mk_resp"
  /\ locEnviar' = [locEnviar EXCEPT ![self].mensaje =
                     Mensaje(locEnviar[self].texto, PROTOCOL_ID,
                             IdDe(None, next_id[self]), TIPO_RESPUESTA)]
  /\ next_id' = [next_id EXCEPT ![self] = SiguienteTras(None, @)]
  /\ pcEnviar' = [pcEnviar EXCEPT ![self] = "send_resp"]
  /\ UNCHANGED << turno, estados, conn, pcBucle, locBucle, salida >>
  /\ UNCHANGED aparte

\* Line 118: resp = Mensaje(texto, id_mensaje=self.pending_request_id, RESPUESTA).
EnviarMkResp(self) ==
  /\ pcEnviar[self] = "mk_resp"
  /\ LET id == pending_request_id[self]
     IN /\ locEnviar' = [locEnviar EXCEPT ![self].mensaje =
                           Mensaje(locEnviar[self].texto, PROTOCOL_ID,
                                   IdDe(id, next_id[self]), TIPO_RESPUESTA)]
        /\ next_id' = [next_id EXCEPT ![self] = SiguienteTras(id, @)]
  /\ pcEnviar' = [pcEnviar EXCEPT ![self] = "send_resp"]
  /\ UNCHANGED << turno, estados, conn, pcBucle, locBucle, salida >>
  /\ UNCHANGED aparte

\* Line 119: self.gestor.enviar_bytes(resp.codificar()).
EnviarSendResp(self) ==
  /\ pcEnviar[self] = "send_resp"
  /\ PuedeEnviar(self)
  /\ conn' = enviar_bytes(conn, self, codificar(locEnviar[self].mensaje))
  /\ locEnviar' = [locEnviar EXCEPT ![self].tramas =
                     Append(@, codificar(locEnviar[self].mensaje))]
  /\ pcEnviar' = [pcEnviar EXCEPT ![self] = "clr_pending"]
  /\ UNCHANGED << turno, estados, next_id, pcBucle, locBucle, salida >>
  /\ UNCHANGED aparte

\* Variant of EnviarClrPending: the answered request stays pending.
EnviarClrPending_NoLimpia(self) ==
  /\ pcEnviar[self] = "clr_pending"
  /\ salida' = [salida EXCEPT ![self] =
                  Linea("respuesta_enviada", pending_request_id[self], <<>>)]
  /\ pcEnviar' = [pcEnviar EXCEPT ![self] = "listo"]
  /\ locEnviar' = [locEnviar EXCEPT ![self] = LocEnviar0]
  /\ UNCHANGED << turno, estados, next_id, conn, pcBucle, locBucle >>
  /\ UNCHANGED aparte

\* Lines 120-122: print, then self.pending_request_id = None; return.
EnviarClrPending(self) ==
  /\ pcEnviar[self] = "clr_pending"
  /\ salida' = [salida EXCEPT ![self] =
                  Linea("respuesta_enviada", pending_request_id[self], <<>>)]
  /\ pending_request_id' = [pending_request_id EXCEPT ![self] = None]
  /\ pcEnviar' = [pcEnviar EXCEPT ![self] = "listo"]
  /\ locEnviar' = [locEnviar EXCEPT ![self] = LocEnviar0]
  /\ UNCHANGED << waiting_for_response_id, estados, next_id, conn, pcBucle, locBucle >>
  /\ UNCHANGED aparte

\* Variant of EnviarChkWaiting: the check of waiting_for_response_id is
\* missing, a new request is always built.
EnviarChkWaiting_SinBloqueo(self) ==
  /\ pcEnviar[self] = "chk_waiting"
  /\ pcEnviar' = [pcEnviar EXCEPT ![self] = "mk_req"]
  /\ UNCHANGED << turno, estados, next_id, conn, locEnviar, pcBucle, locBucle, salida >>
  /\ UNCHANGED aparte

\* Lines 125-127: if self.waiting_for_response_id is not None: print; return.
EnviarChkWaiting(self) ==
  /\ pcEnviar[self] = "chk_waiting"
  /\ IF waiting_for_response_id[self] # None
     THEN /\ salida' = [salida EXCEPT ![self] =
                          Linea("bloqueado", waiting_for_response_id[self], <<>>)]
          /\ pcEnviar' = [pcEnviar EXCEPT ![self] = "listo"]
          /\ locEnviar' = [locEnviar EXCEPT ![self] = LocEnviar0]
     ELSE /\ pcEnviar' = [pcEnviar EXCEPT ![self] = "mk_req"]
          /\ UNCHANGED << salida, locEnviar >>
  /\ UNCHANGED << turno, estados, next_id, conn, pcBucle, locBucle >>
  /\ UNCHANGED aparte

\* Line 128: mensaje = Mensaje(texto, id_protocolo=self.protocol_id); the id
\* is drawn from Mensaje._next_id under Mensaje._id_lock.
EnviarMkReq(self) ==
  /\ pcEnviar[self] = "mk_req"
  /\ locEnviar' = [locEnviar EXCEPT ![self].mensaje =
                     Mensaje(locEnviar[self].texto, PROTOCOL_ID,
                             IdDe(None, next_id[self]), None)]
  /\ next_id' = [next_id EXCEPT ![self] = SiguienteTras(None, @)]
  /\ pcEnviar' = [pcEnviar EXCEPT ![self] = "send_req"]
  /\ UNCHANGED << turno, estados, conn, pcBucle, locBucle, salida >>
  /\ UNCHANGED aparte

\* Line 129: self.gestor.enviar_bytes(mensaje.codificar()).
EnviarSendReq(self) ==
  /\ pcEnviar[self] = "send_req"
  /\ PuedeEnviar(self)
  /\ conn' = enviar_bytes(conn, self, codificar(locEnviar[self].mensaje))
  /\ locEnviar' = [locEnviar EXCEPT ![self].tramas =
                     Append(@, codificar(locEnviar[self].mensaje))]
  /\ pcEnviar' = [pcEnviar EXCEPT ![self] = "set_estado"]
  /\ UNCHANGED << turno, estados, next_id, pcBucle, locBucle, salida >>
  /\ UNCHANGED aparte

\* Line 131: self.estados[mensaje.id_mensaje] = EstadoMensaje.ENVIADO.
EnviarSetEstado(self) ==
  /\ pcEnviar[self] = "set_estado"
  /\ estados' = [estados EXCEPT ![self] =
                   Poner(@, locEnviar[self].mensaje.id_mensaje, ENVIADO)]
  /\ pcEnviar' = [pcEnviar EXCEPT ![self] = "set_waiting"]
  /\ UNCHANGED << turno, next_id, conn, locEnviar, pcBucle, locBucle, salida >>
  /\ UNCHANGED aparte

\* Variant of EnviarSetWaiting: the id of the request is not recorded.
EnviarSetWaiting_NoMarca(self) ==
  /\ pcEnviar[self] = "set_waiting"
  /\ salida' = [salida EXCEPT ![self] =
                  Linea("enviado", locEnviar[self].mensaje.id_mensaje, <<>>)]
  /\ pcEnviar' = [pcEnviar EXCEPT ![self] = "listo"]
  /\ locEnviar' = [locEnviar EXCEPT ![self] = LocEnviar0]
  /\ UNCHANGED << turno, estados, next_id, conn, pcBucle, locBucle >>
  /\ UNCHANGED aparte

\* Lines 132-133: self.waiting_for_response_id = mensaje.id_mensaje; print.
EnviarSetWaiting(self) ==
  /\ pcEnviar[self] = "set_waiting"
  /\ waiting_for_response_id' = [waiting_for_response_id EXCEPT ![self] =
                                   locEnviar[self].mensaje.id_mensaje]
  /\ salida' = [salida EXCEPT ![self] =
                  Linea("enviado", locEnviar[self].mensaje.id_mensaje, <<>>)]
  /\ pcEnviar' = [pcEnviar EXCEPT ![self] = "listo"]
  /\ locEnviar' = [locEnviar EXCEPT ![self] = LocEnviar0]
  /\ UNCHANGED << pending_request_id, estados, next_id, conn, pcBucle, locBucle >>
  /\ UNCHANGED aparte

\* One step of a running enviar_texto call.
EnviarPaso(self) ==
  \/ EnviarChkPending(self)
  \/ EnviarMkResp(self)
  \/ EnviarSendResp(self)
  \/ EnviarClrPending(self)
  \/ EnviarChkWaiting(self)
  \/ EnviarMkReq(self)
  \/ EnviarSendReq(self)
  \/ EnviarSetEstado(self)
  \/ EnviarSetWaiting(self)

\* -------------------------------------------- ClienteChat._bucle_recepcion
\* Variant of BucleRecibir: a frame that does not decode ends the loop.
BucleRecibir_Fatal(self, data) ==
  /\ pcBucle[self] \in {"recibir", "en_recv"}
  /\ LET r == decodificar(data)
         m == r.mensaje
         tipo == m.cabecera.tipo_operacion
     IN IF data = << >>
        THEN /\ salida' = [salida EXCEPT ![self] = Linea("desconectado", None, <<>>)]
             /\ pcBucle' = [pcBucle EXCEPT ![self] = "fin"]
             /\ UNCHANGED locBucle
        ELSE IF ~r.ok
        THEN /\ salida' = [salida EXCEPT ![self] = Linea("error_decodificar", None, <<>>)]
             /\ pcBucle' = [pcBucle EXCEPT ![self] = "fin"]
             /\ UNCHANGED locBucle
        ELSE /\ locBucle' = [locBucle EXCEPT ![self] =
                               IF tipo \in {TIPO_ENVIO, TIPO_RECIBIDO, TIPO_LEIDO, TIPO_RESPUESTA}
                               THEN [LocBucle0 EXCEPT
                                       !.data = data,
                                       !.mensaje = m,
                                       !.antes = Antes(waiting_for_response_id[self],
                                                       pending_request_id[self],
                                                       next_id[self])]
                               ELSE LocBucle0]
             /\ pcBucle' = [pcBucle EXCEPT ![self] =
                              CASE tipo = TIPO_ENVIO -> "ack"
                                [] tipo = TIPO_RECIBIDO -> "est_recibido"
                                [] tipo = TIPO_LEIDO -> "est_leido"
                                [] tipo = TIPO_RESPUESTA -> "chk_resp"
                                [] OTHER -> "recibir"]
             /\ salida' = [salida EXCEPT ![self] =
                             IF tipo = TIPO_ENVIO
                             THEN Linea("recibido", m.id_mensaje, m.payload)
                             ELSE @]
  /\ UNCHANGED << turno, estados, next_id, pcEnviar, locEnviar >>
  /\ UNCHANGED aparte

\* Lines 59-75 and the dispatch on tipo: one frame is received and decoded.
\* At "recibir" the loop is at its top with the stop flag clear (the test of
\* line 59 and the call of line 60 taken together); at "en_recv" the test has
\* passed and the thread is inside recibir_bytes.  An empty result ends the
\* loop; a frame that does not decode is reported and the loop continues.
BucleRecibir(self, data) ==
  /\ pcBucle[self] \in {"recibir", "en_recv"}
  /\ LET r == decodificar(data)
         m == r.mensaje
         tipo == m.cabecera.tipo_operacion
     IN IF data = << >>
        THEN /\ salida' = [salida EXCEPT ![self] = Linea("desconectado", None, <<>>)]
             /\ pcBucle' = [pcBucle EXCEPT ![self] = "fin"]
             /\ UNCHANGED locBucle
        ELSE IF ~r.ok
        THEN /\ salida' = [salida EXCEPT ![self] = Linea("error_decodificar", None, <<>>)]
             /\ pcBucle' = [pcBucle EXCEPT ![self] = "recibir"]
             /\ UNCHANGED locBucle
        ELSE /\ locBucle' = [locBucle EXCEPT ![self] =
                               IF tipo \in {TIPO_ENVIO, TIPO_RECIBIDO, TIPO_LEIDO, TIPO_RESPUESTA}
                               THEN [LocBucle0 EXCEPT
                                       !.data = data,
                                       !.mensaje = m,
                                       !.antes = Antes(waiting_for_response_id[self],
                                                       pending_request_id[self],
                                                       next_id[self])]
                               ELSE LocBucle0]
             /\ pcBucle' = [pcBucle EXCEPT ![self] =
                              CASE tipo = TIPO_ENVIO -> "ack"
                                [] tipo = TIPO_RECIBIDO -> "est_recibido"
                                [] tipo = TIPO_LEIDO -> "est_leido"
                                [] tipo = TIPO_RESPUESTA -> "chk_resp"
                                [] OTHER -> "recibir"]
             /\ salida' = [salida EXCEPT ![self] =
                             IF tipo = TIPO_ENVIO
                             THEN Linea("recibido", m.id_mensaje, m.payload)
                             ELSE @]
  /\ UNCHANGED << turno, estados, next_id, pcEnviar, locEnviar >>
  /\ UNCHANGED aparte

\* Variant of BucleAck: pending_request_id is recorded together with the
\* ACK, before the turn is checked.
BucleAck_PendingAntes(self) ==
  /\ pcBucle[self] = "ack"
  /\ PuedeEnviar(self)
  /\ LET ack == crear_control(locBucle[self].mensaje.id_mensaje, TIPO_RECIBIDO)
     IN /\ conn' = enviar_bytes(conn, self, codificar(ack))
        /\ locBucle' = [locBucle EXCEPT ![self].ack = ack,
                                         ![self].tramas = Append(@, codificar(ack))]
  /\ pending_request_id' = [pending_request_id EXCEPT ![self] =
                              locBucle[self].mensaje.id_mensaje]
  /\ pcBucle' = [pcBucle EXCEPT ![self] = "chk_pending"]
  /\ UNCHANGED << waiting_for_response_id, estados, next_id, pcEnviar, locEnviar, salida >>
  /\ UNCHANGED aparte

\* Lines 76-77: ack = self._crear_control(id, TIPO_RECIBIDO); enviar_bytes.
BucleAck(self) ==
  /\ pcBucle[self] = "ack"
  /\ PuedeEnviar(self)
  /\ LET ack == crear_control(locBucle[self].mensaje.id_mensaje, TIPO_RECIBIDO)
     IN /\ conn' = enviar_bytes(conn, self, codificar(ack))
        /\ locBucle' = [locBucle EXCEPT ![self].ack = ack,
                                         ![self].tramas = Append(@, codificar(ack))]
  /\ next_id' = [next_id EXCEPT ![self] =
                  SiguienteTras(locBucle[self].mensaje.id_mensaje, @)]
  /\ pcBucle' = [pcBucle EXCEPT ![self] = "chk_pending"]
  /\ UNCHANGED << turno, estados, pcEnviar, locEnviar, salida >>
  /\ UNCHANGED aparte

\* Variant of BucleChkPending: a request that arrives while another is
\* pending replaces it.
BucleChkPending_Sobrescribe(self) ==
  /\ pcBucle[self] = "chk_pending"
  /\ pcBucle' = [pcBucle EXCEPT ![self] =
                   IF pending_request_id[self] # None THEN "set_pending"
                                                      ELSE "chk_waiting"]
  /\ UNCHANGED << turno, estados, next_id, conn, pcEnviar, locEnviar, locBucle, salida >>
  /\ UNCHANGED aparte

\* Lines 80-81: if self.pending_request_id is not None: print (ignored).
BucleChkPending(self) ==
  /\ pcBucle[self] = "chk_pending"
  /\ IF pending_request_id[self] # None
     THEN /\ salida' = [salida EXCEPT ![self] =
                          Linea("ignorada", pending_request_id[self], <<>>)]
          /\ pcBucle' = [pcBucle EXCEPT ![self] = "recibir"]
          /\ locBucle' = [locBucle EXCEPT ![self] = LocBucle0]
     ELSE /\ pcBucle' = [pcBucle EXCEPT ![self] = "chk_waiting"]
          /\ UNCHANGED << salida, locBucle >>
  /\ UNCHANGED << turno, estados, next_id, conn, pcEnviar, locEnviar >>
  /\ UNCHANGED aparte

\* Variant of BucleChkWaiting: the elif on waiting_for_response_id is
\* missing, the request is accepted.
BucleChkWaiting_Acepta(self) ==
  /\ pcBucle[self] = "chk_waiting"
  /\ pcBucle' = [pcBucle EXCEPT ![self] = "set_pending"]
  /\ UNCHANGED << turno, estados, next_id, conn, pcEnviar, locEnviar, locBucle, salida >>
  /\ UNCHANGED aparte

\* Lines 82-83: elif self.waiting_for_response_id is not None: print.
BucleChkWaiting(self) ==
  /\ pcBucle[self] = "chk_waiting"
  /\ IF waiting_for_response_id[self] # None
     THEN /\ salida' = [salida EXCEPT ![self] =
                          Linea("no_aceptada", waiting_for_response_id[self], <<>>)]
          /\ pcBucle' = [pcBucle EXCEPT ![self] = "recibir"]
          /\ locBucle' = [locBucle EXCEPT ![self] = LocBucle0]
     ELSE /\ pcBucle' = [pcBucle EXCEPT ![self] = "set_pending"]
          /\ UNCHANGED << salida, locBucle >>
  /\ UNCHANGED << turno, estados, next_id, conn, pcEnviar, locEnviar >>
  /\ UNCHANGED aparte

\* Lines 86-87: self.pending_request_id = mensaje.id_mensaje; print.
BucleSetPending(self) ==
  /\ pcBucle[self] = "set_pending"
  /\ pending_request_id' = [pending_request_id EXCEPT ![self] =
                              locBucle[self].mensaje.id_mensaje]
  /\ salida' = [salida EXCEPT ![self] =
                  Linea("debe_responder", locBucle[self].mensaje.id_mensaje, <<>>)]
  /\ pcBucle' = [pcBucle EXCEPT ![self] = "recibir"]
  /\ locBucle' = [locBucle EXCEPT ![self] = LocBucle0]
  /\ UNCHANGED << waiting_for_response_id, estados, next_id, conn, pcEnviar, locEnviar >>
  /\ UNCHANGED aparte

\* Lines 91-92: self.estados[id] = EstadoMensaje.RECIBIDO; print.
BucleEstRecibido(self) ==
  /\ pcBucle[self] = "est_recibido"
  /\ estados' = [estados EXCEPT ![self] =
                   Poner(@, locBucle[self].mensaje.id_mensaje, RECIBIDO)]
  /\ salida' = [salida EXCEPT ![self] =
                  Linea("confirmacion_recibido", locBucle[self].mensaje.id_mensaje, <<>>)]
  /\ pcBucle' = [pcBucle EXCEPT ![self] = "recibir"]
  /\ locBucle' = [locBucle EXCEPT ![self] = LocBucle0]
  /\ UNCHANGED << turno, next_id, conn, pcEnviar, locEnviar >>
  /\ UNCHANGED aparte

\* Lines 96-97: self.estados[id] = EstadoMensaje.LEIDO; print.
BucleEstLeido(self) ==
  /\ pcBucle[self] = "est_leido"
  /\ estados' = [estados EXCEPT ![self] =
                   Poner(@, locBucle[self].mensaje.id_mensaje, LEIDO)]
  /\ salida' = [salida EXCEPT ![self] =
                  Linea("confirmacion_leido", locBucle[self].mensaje.id_mensaje, <<>>)]
  /\ pcBucle' = [pcBucle EXCEPT ![self] = "recibir"]
  /\ locBucle' = [locBucle EXCEPT ![self] = LocBucle0]
  /\ UNCHANGED << turno, next_id, conn, pcEnviar, locEnviar >>
  /\ UNCHANGED aparte

\* Variant of BucleChkResp: any RESPUESTA is taken as the awaited one.
BucleChkResp_SinComparar(self) ==
  /\ pcBucle[self] = "chk_resp"
  /\ salida' = [salida EXCEPT ![self] =
                  Linea("respuesta", locBucle[self].mensaje.id_mensaje,
                        locBucle[self].mensaje.payload)]
  /\ pcBucle' = [pcBucle EXCEPT ![self] = "clr_waiting"]
  /\ UNCHANGED << turno, estados, next_id, conn, pcEnviar, locEnviar, locBucle >>
  /\ UNCHANGED aparte

\* Lines 101-102 and 105-107: if self.waiting_for_response_id == id: print
\* the answer; else: print the unexpected answer.
BucleChkResp(self) ==
  /\ pcBucle[self] = "chk_resp"
  /\ LET m == locBucle[self].mensaje
     IN IF waiting_for_response_id[self] = m.id_mensaje
        THEN /\ salida' = [salida EXCEPT ![self] =
                             Linea("respuesta", m.id_mensaje, m.payload)]
             /\ pcBucle' = [pcBucle EXCEPT ![self] = "clr_waiting"]
             /\ UNCHANGED locBucle
        ELSE /\ salida' = [salida EXCEPT ![self] =
                             Linea("inesperada", m.id_mensaje, m.payload)]
             /\ pcBucle' = [pcBucle EXCEPT ![self] = "recibir"]
             /\ locBucle' = [locBucle EXCEPT ![self] = LocBucle0]
  /\ UNCHANGED << turno, estados, next_id, conn, pcEnviar, locEnviar >>
  /\ UNCHANGED aparte

\* Variant of BucleClrWaiting: the awaited answer does not release the turn.
BucleClrWaiting_NoLimpia(self) ==
  /\ pcBucle[self] = "clr_waiting"
  /\ pcBucle' = [pcBucle EXCEPT ![self] = "recibir"]
  /\ locBucle' = [locBucle EXCEPT ![self] = LocBucle0]
  /\ UNCHANGED << turno, estados, next_id, conn, pcEnviar, locEnviar, salida >>
  /\ UNCHANGED aparte

\* Line 104: self.waiting_for_response_id = None.
BucleClrWaiting(self) ==
  /\ pcBucle[self] = "clr_waiting"
  /\ waiting_for_response_id' = [waiting_for_response_id EXCEPT ![self] = None]
  /\ pcBucle' = [pcBucle EXCEPT ![self] = "recibir"]
  /\ locBucle' = [locBucle EXCEPT ![self] = LocBucle0]
  /\ UNCHANGED << pending_request_id, estados, next_id, conn, pcEnviar, locEnviar, salida >>
  /\ UNCHANGED aparte

\* One step of the receive loop after a frame has been decoded.
BuclePaso(self) ==
  \/ BucleAck(self)
  \/ BucleChkPending(self)
  \/ BucleChkWaiting(self)
  \/ BucleSetPending(self)
  \/ BucleEstRecibido(self)
  \/ BucleEstLeido(self)
  \/ BucleChkResp(self)
  \/ BucleClrWaiting(self)

\* ----------------------------------------------------- the remote participant
\* The coordinator under study when the other end is left unconstrained.
Yo == "A"

\* What the other end may write on the connection: every message the same
\* code builds there, and two frames damaged on the way (a wrong CRC field,
\* a frame shorter than a header).
IdsRemotos == 1..MaxId

Entrantes ==
  LET conTexto == { codificar(Mensaje(t, PROTOCOL_ID, i, tp)) :
                      t \in Textos, i \in IdsRemotos,
                      tp \in {TIPO_ENVIO, TIPO_ERROR, TIPO_RESPUESTA} }
      control == { codificar(crear_control(i, tp)) :
                      i \in IdsRemotos, tp \in {TIPO_RECIBIDO, TIPO_LEIDO} }
      mala == codificar(Mensaje(<<111>>, PROTOCOL_ID, 1, TIPO_ENVIO))
  IN conTexto \cup control
       \cup { [mala EXCEPT ![HEADER_SIZE] = << @[1], (@[2] + 1) % 65536 >>],
              SubSeq(mala, 1, 3) }

\* The other end reads the oldest frame this side wrote.
PeerLee ==
  /\ conn[Yo] # << >>
  /\ conn' = [conn EXCEPT ![Yo] = Tail(@)]
  /\ UNCHANGED << turno, estados, next_id, pcEnviar, locEnviar, pcBucle, locBucle, salida >>
  /\ UNCHANGED aparte

\* ------------------------------------------------------- specifications
\* Spec: one coordinator whose two handlers run one at a time (a submit call
\* starts only while the receive loop is blocked in recibir_bytes, a frame
\* is taken only while no submit call is running).
Submit ==
  /\ pcBucle[Yo] = "recibir"
  /\ \E t \in Textos : EnviarLlamar(Yo, t)

SubmitSigue == EnviarPaso(Yo)

Llegada ==
  /\ pcEnviar[Yo] = "listo"
  /\ \E data \in Entrantes : BucleRecibir(Yo, data)
  /\ UNCHANGED conn

BucleSigue == BuclePaso(Yo)

Next == Submit \/ SubmitSigue \/ Llegada \/ BucleSigue \/ PeerLee

Spec == Init /\ [][Next]_vars

\* SpecHilos: the same coordinator with enviar_texto and _bucle_recepcion
\* as two threads whose steps interleave freely.
HiloSubmit == \E t \in Textos : EnviarLlamar(Yo, t)

HiloLlegada ==
  /\ \E data \in Entrantes : BucleRecibir(Yo, data)
  /\ UNCHANGED conn

NextHilos == HiloSubmit \/ SubmitSigue \/ HiloLlegada \/ BucleSigue \/ PeerLee

SpecHilos == Init /\ [][NextHilos]_vars

\* SpecPares: two coordinators, one at each end of the connection, each with
\* its own process (its own Mensaje._next_id) and its two threads.  What one
\* writes the other receives, in order.
ParSubmit == \E self \in Peers : \E t \in Textos : EnviarLlamar(self, t)

ParSubmitSigue == \E self \in Peers : EnviarPaso(self)

ParLlegada ==
  \E self \in Peers :
    /\ conn[Otro(self)] # << >>
    /\ BucleRecibir(self, Head(conn[Otro(self)]))
    /\ conn' = [conn EXCEPT ![Otro(self)] = Tail(@)]

\* No ClienteChat ever writes a TIPO_LEIDO frame, so the LEIDO branch of the
\* loop has nothing to run on here.
ParBucleSigue ==
  \E self \in Peers :
    \/ BucleAck(self)
    \/ BucleChkPending(self)
    \/ BucleChkWaiting(self)
    \/ BucleSetPending(self)
    \/ BucleEstRecibido(self)
    \/ BucleChkResp(self)
    \/ BucleClrWaiting(self)

NextPares == ParSubmit \/ ParSubmitSigue \/ ParLlegada \/ ParBucleSigue

SpecPares == Init /\ [][NextPares]_vars

\* SpecFallos: the coordinator of Spec on a connection that can fail.  The
\* peer may close, the connection may break, and the foreground may call
\* detener() at any moment of the receive loop.  enviar_texto and the
\* processing of one frame still run one at a time.

\* Lines 119 / 129 raise: the except of lines 134-136 prints and the call
\* returns.
EnviarSendFalla(self) ==
  /\ pcEnviar[self] \in {"send_resp", "send_req"}
  /\ FallaEnviar(self)
  /\ salida' = [salida EXCEPT ![self] =
                  Linea("error_enviar", locEnviar[self].mensaje.id_mensaje, <<>>)]
  /\ pcEnviar' = [pcEnviar EXCEPT ![self] = "listo"]
  /\ locEnviar' = [locEnviar EXCEPT ![self] = LocEnviar0]
  /\ UNCHANGED << turno, estados, next_id, conn, pcBucle, locBucle >>
  /\ UNCHANGED aparte

\* Lines 76-77 raise: nothing in _bucle_recepcion catches it, the exception
\* leaves the function and the receive thread ends.
BucleAckFalla(self) ==
  /\ pcBucle[self] = "ack"
  /\ FallaEnviar(self)
  /\ salida' = [salida EXCEPT ![self] =
                  Linea("excepcion", locBucle[self].mensaje.id_mensaje, <<>>)]
  /\ pcBucle' = [pcBucle EXCEPT ![self] = "caido"]
  /\ UNCHANGED << turno, estados, next_id, conn, pcEnviar, locEnviar, locBucle >>
  /\ UNCHANGED aparte

\* Line 59: while not self.stop_event.is_set().
BucleMientras(self) ==
  /\ pcBucle[self] = "recibir"
  /\ pcBucle' = [pcBucle EXCEPT ![self] =
                   IF stop_event[self] THEN "fin" ELSE "en_recv"]
  /\ UNCHANGED << turno, estados, next_id, conn, pcEnviar, locEnviar, locBucle, salida >>
  /\ UNCHANGED aparte

\* Line 60 raises (recv on a broken connection, or on a socket this side has
\* closed): the call is outside the try, so the receive thread ends.
BucleRecvFalla(self) ==
  /\ pcBucle[self] = "en_recv"
  /\ enlace[self] = "roto" \/ sock[self] = "cerrado"
  /\ salida' = [salida EXCEPT ![self] = Linea("excepcion", None, <<>>)]
  /\ pcBucle' = [pcBucle EXCEPT ![self] = "caido"]
  /\ UNCHANGED << turno, estados, next_id, conn, pcEnviar, locEnviar, locBucle >>
  /\ UNCHANGED aparte

\* ClienteChat.detener, line 154: self.stop_event.set().
DetenerStop(self) ==
  /\ pcDetener[self] = "no"
  /\ stop_event' = [stop_event EXCEPT ![self] = TRUE]
  /\ pcDetener' = [pcDetener EXCEPT ![self] = "cerrar"]
  /\ UNCHANGED << turno, estados, next_id, conn, pcEnviar, locEnviar, pcBucle, locBucle, salida >>
  /\ UNCHANGED << sock, enlace, temporizadores >>
  /\ UNCHANGED sinCierre

\* ClienteChat.detener, line 155: self.gestor.cerrar(), which closes the
\* socket (conn.close(), no shutdown).
DetenerCerrar(self) ==
  /\ pcDetener[self] = "cerrar"
  /\ sock' = [sock EXCEPT ![self] = "cerrado"]
  /\ pcDetener' = [pcDetener EXCEPT ![self] = "hecho"]
  /\ UNCHANGED << turno, estados, next_id, conn, pcEnviar, locEnviar, pcBucle, locBucle, salida >>
  /\ UNCHANGED << stop_event, enlace, temporizadores >>
  /\ UNCHANGED sinCierre

\* The peer closes its end: from now on recv returns b''.
PeerCierra ==
  /\ enlace[Yo] = "ok"
  /\ enlace' = [enlace EXCEPT ![Yo] = "eof"]
  /\ UNCHANGED << turno, estados, next_id, conn, pcEnviar, locEnviar, pcBucle, locBucle, salida >>
  /\ UNCHANGED << stop_event, sock, pcDetener, temporizadores >>
  /\ UNCHANGED sinCierre

\* The connection breaks (reset, timeout): from now on recv and sendall raise.
EnlaceSeRompe ==
  /\ enlace[Yo] \in {"ok", "eof"}
  /\ enlace' = [enlace EXCEPT ![Yo] = "roto"]
  /\ UNCHANGED << turno, estados, next_id, conn, pcEnviar, locEnviar, pcBucle, locBucle, salida >>
  /\ UNCHANGED << stop_event, sock, pcDetener, temporizadores >>
  /\ UNCHANGED sinCierre

FSubmit ==
  /\ pcBucle[Yo] \in {"recibir", "en_recv", "fin", "caido"}
  /\ \E t \in Textos : EnviarLlamar(Yo, t)

FSubmitFalla == EnviarSendFalla(Yo)

FMientras == BucleMientras(Yo)

\* recibir_bytes returns a whole frame.
FLlegada ==
  /\ pcBucle[Yo] = "en_recv"
  /\ pcEnviar[Yo] = "listo"
  /\ sock[Yo] = "abierto"
  /\ enlace[Yo] = "ok"
  /\ \E data \in Entrantes : BucleRecibir(Yo, data)
  /\ UNCHANGED conn

\* recibir_bytes returns b'': the peer has closed.  A recv that was already
\* blocked when this side closed its socket may still see the peer's close.
FEof ==
  /\ pcBucle[Yo] = "en_recv"
  /\ pcEnviar[Yo] = "listo"
  /\ enlace[Yo] = "eof"
  /\ BucleRecibir(Yo, << >>)
  /\ UNCHANGED conn

FRecvFalla == BucleRecvFalla(Yo)

FAckFalla == BucleAckFalla(Yo)

FDetener == DetenerStop(Yo) \/ DetenerCerrar(Yo)

NextFallos ==
  \/ FSubmit \/ SubmitSigue \/ FSubmitFalla
  \/ FMientras \/ FLlegada \/ FEof \/ FRecvFalla
  \/ BucleSigue \/ FAckFalla
  \/ FDetener \/ PeerCierra \/ EnlaceSeRompe \/ PeerLee

SpecFallos == Init /\ [][NextFallos]_vars

\* SpecGUI: Yo runs ChatGUI instead of ClienteChat.  ChatGUI keeps the same
\* two turn fields and the same protocol; its handlers are taken whole, one
\* step per loop iteration, per send_message call, per timer and per stop().

\* The frame an iteration of ChatGUI._bucle_recepcion writes for a request,
\* if the send of lines 195-198 succeeds.
GuiAck(m) == crear_control(m.id_mensaje, TIPO_RECIBIDO)

\* ChatGUI.stop, lines 290-302.
GuiParar(self) ==
  /\ stop_event' = [stop_event EXCEPT ![self] = TRUE]
  /\ sock' = [sock EXCEPT ![self] = "cerrado"]
  /\ pcDetener' = [pcDetener EXCEPT ![self] = "hecho"]

\* One iteration of ChatGUI._bucle_recepcion, lines 174-245, on a frame that
\* recibir_bytes returned.  ackOk tells whether the send of the ACK works.
GuiRecibe(self, data, ackOk) ==
  /\ pcBucle[self] = "recibir"
  /\ ~ stop_event[self]
  /\ sock[self] = "abierto"
  /\ enlace[self] \in {"ok", "eof"}
  /\ LET r == decodificar(data)
         m == r.mensaje
         tipo == m.cabecera.tipo_operacion
         id == m.cabecera.id_mensaje
         w == waiting_for_response_id[self]
         pd == pending_request_id[self]
     IN IF ~ r.ok
        THEN /\ salida' = [salida EXCEPT ![self] = Linea("error_decodificar", None, <<>>)]
             /\ UNCHANGED << turno, conn, locBucle, temporizadores >>
        ELSE IF tipo = TIPO_ENVIO
        THEN /\ IF ackOk THEN PuedeEnviar(self) ELSE FallaEnviar(self)
             /\ conn' = IF ackOk THEN enviar_bytes(conn, self, codificar(GuiAck(m)))
                                 ELSE conn
             /\ locBucle' = [locBucle EXCEPT ![self] =
                               [LocBucle0 EXCEPT
                                  !.mensaje = m,
                                  !.tramas = IF ackOk THEN << codificar(GuiAck(m)) >>
                                                      ELSE << >>]]
             /\ temporizadores' = [temporizadores EXCEPT ![self] = @ \cup {m.id_mensaje}]
             /\ IF pd # None
                THEN /\ salida' = [salida EXCEPT ![self] = Linea("ya_pendiente", pd, <<>>)]
                     /\ UNCHANGED turno
                ELSE IF w # None
                THEN /\ salida' = [salida EXCEPT ![self] = Linea("no_aceptada", w, <<>>)]
                     /\ UNCHANGED turno
                ELSE /\ pending_request_id' = [pending_request_id EXCEPT ![self] = id]
                     /\ salida' = [salida EXCEPT ![self] =
                                     IF ackOk THEN Linea("recibido", id, <<>>)
                                              ELSE Linea("error_ack", id, <<>>)]
                     /\ UNCHANGED waiting_for_response_id
        ELSE /\ IF tipo = TIPO_RESPUESTA
                THEN IF w = id
                     THEN /\ waiting_for_response_id' =
                               [waiting_for_response_id EXCEPT ![self] = None]
                          /\ salida' = [salida EXCEPT ![self] =
                                          Linea("respuesta_recibida", id, <<>>)]
                     ELSE /\ salida' = [salida EXCEPT ![self] =
                                          Linea("respuesta_inesperada", id, <<>>)]
                          /\ UNCHANGED waiting_for_response_id
                ELSE /\ salida' = [salida EXCEPT ![self] =
                                     IF tipo = TIPO_RECIBIDO THEN Linea("ack", id, <<>>)
                                     ELSE IF tipo = TIPO_LEIDO THEN Linea("leido", id, <<>>)
                                     ELSE @]
                     /\ UNCHANGED waiting_for_response_id
             /\ UNCHANGED << pending_request_id, conn, locBucle, temporizadores >>
  /\ UNCHANGED << estados, next_id, pcEnviar, locEnviar, pcBucle >>
  /\ UNCHANGED << stop_event, sock, enlace, pcDetener >>
  /\ UNCHANGED sinCierre

\* Lines 175-185 when recibir_bytes raises: the except logs and continues.
GuiRecvFalla(self) ==
  /\ pcBucle[self] = "recibir"
  /\ ~ stop_event[self]
  /\ enlace[self] = "roto" \/ sock[self] = "cerrado"
  /\ salida' = [salida EXCEPT ![self] = Linea("error_recibir", None, <<>>)]
  /\ UNCHANGED << turno, estados, next_id, conn, pcEnviar, locEnviar, pcBucle, locBucle >>
  /\ UNCHANGED aparte

\* Lines 176-180 and 248: recibir_bytes returns b'', the loop breaks and
\* calls stop().  The same when the while test of line 174 finds the flag set.
GuiFin(self) ==
  /\ pcBucle[self] = "recibir"
  /\ stop_event[self] \/ (enlace[self] = "eof" /\ sock[self] = "abierto")
  /\ salida' = [salida EXCEPT ![self] =
                  IF stop_event[self] THEN @ ELSE Linea("desconectado", None, <<>>)]
  /\ pcBucle' = [pcBucle EXCEPT ![self] = "fin"]
  /\ GuiParar(self)
  /\ UNCHANGED << turno, estados, next_id, conn, pcEnviar, locEnviar, locBucle >>
  /\ UNCHANGED << enlace, temporizadores >>
  /\ UNCHANGED sinCierre

\* The timer of lines 201-213 fires: _send_leido writes a LEIDO frame, or
\* logs the exception of the send.
GuiTimerLeido(self, id, ok) ==
  /\ id \in temporizadores[self]
  /\ IF ok THEN PuedeEnviar(self) ELSE FallaEnviar(self)
  /\ conn' = IF ok THEN enviar_bytes(conn, self, codificar(crear_control(id, TIPO_LEIDO)))
                   ELSE conn
  /\ salida' = [salida EXCEPT ![self] =
                  Linea(IF ok THEN "leido_enviado" ELSE "error_leido", id, <<>>)]
  /\ temporizadores' = [temporizadores EXCEPT ![self] = @ \ {id}]
  /\ UNCHANGED << turno, estados, next_id, pcEnviar, locEnviar, pcBucle, locBucle >>
  /\ UNCHANGED << stop_event, sock, enlace, pcDetener >>
  /\ UNCHANGED sinCierre

\* ChatGUI.send_message, lines 250-288, with gestor set.  ok tells whether
\* the send works; when it raises, the except of line 284 logs.
GuiSendMessage(self, texto, ok) ==
  /\ pcDetener[self] = "no"
  /\ next_id[self] <= MaxId
  /\ LET w == waiting_for_response_id[self]
         pd == pending_request_id[self]
         msg == Mensaje(texto, PROTOCOL_ID, IdDe(pd, next_id[self]),
                        IF pd # None THEN TIPO_RESPUESTA ELSE None)
     IN IF pd = None /\ w # None
        THEN /\ salida' = [salida EXCEPT ![self] = Linea("bloqueado", w, <<>>)]
             /\ locEnviar' = [locEnviar EXCEPT ![self] = LocEnviar0]
             /\ UNCHANGED << turno, next_id, conn >>
        ELSE /\ IF ok THEN PuedeEnviar(self) ELSE FallaEnviar(self)
             /\ next_id' = [next_id EXCEPT ![self] = SiguienteTras(pd, @)]
             /\ conn' = IF ok THEN enviar_bytes(conn, self, codificar(msg)) ELSE conn
             /\ locEnviar' = [locEnviar EXCEPT ![self] =
                                [LocEnviar0 EXCEPT
                                   !.mensaje = msg,
                                   !.tramas = IF ok THEN << codificar(msg) >> ELSE << >>]]
             /\ salida' = [salida EXCEPT ![self] =
                             IF ~ ok THEN Linea("error_enviar", msg.id_mensaje, <<>>)
                             ELSE IF pd # None THEN Linea("respuesta_enviada", pd, <<>>)
                             ELSE Linea("enviado", msg.id_mensaje, <<>>)]
             /\ pending_request_id' =
                  IF ok /\ pd # None THEN [pending_request_id EXCEPT ![self] = None]
                                     ELSE pending_request_id
             /\ waiting_for_response_id' =
                  IF ok /\ pd = None
                  THEN [waiting_for_response_id EXCEPT ![self] = msg.id_mensaje]
                  ELSE waiting_for_response_id
  /\ UNCHANGED << estados, pcEnviar, pcBucle, locBucle >>
  /\ UNCHANGED cierre
  /\ UNCHANGED sinCierre

\* The window is closed while the loop runs: stop() on the foreground.
GuiStop(self) ==
  /\ pcDetener[self] = "no"
  /\ GuiParar(self)
  /\ UNCHANGED << turno, estados, next_id, conn, pcEnviar, locEnviar, pcBucle, locBucle, salida >>
  /\ UNCHANGED << enlace, temporizadores >>
  /\ UNCHANGED sinCierre

GLlegada == \E data \in Entrantes : \E ackOk \in BOOLEAN : GuiRecibe(Yo, data, ackOk)

GRecvFalla == GuiRecvFalla(Yo)

GFin == GuiFin(Yo)

GTimer == \E id \in IdsRemotos : \E ok \in BOOLEAN : GuiTimerLeido(Yo, id, ok)

GSubmit == \E t \in Textos : \E ok \in BOOLEAN : GuiSendMessage(Yo, t, ok)

GStop == GuiStop(Yo)

NextGUI ==
  \/ GLlegada \/ GRecvFalla \/ GFin \/ GTimer \/ GSubmit \/ GStop
  \/ PeerCierra \/ EnlaceSeRompe \/ PeerLee

SpecGUI == Init /\ [][NextGUI]_vars

\* SpecCable: the transport by itself, byte by byte.  Several threads of one
\* process call enviar_bytes on the same connection; sendall hands the bytes
\* to the stream in pieces; the other end calls recibir_bytes, whose recv
\* calls get the stream in pieces of any size; the sending side may close at
\* any moment, also in the middle of a frame.

\* The contents passed to enviar_bytes.
Contenidos == { << >>, <<7>>, <<8, 9>> }

\* struct.pack("!I", n): four bytes, most significant first.
pack_I(n) == << (n \div 16777216) % 256, (n \div 65536) % 256, (n \div 256) % 256, n % 256 >>

\* struct.unpack("!I", b)[0].
unpack_I(b) == b[1] * 16777216 + b[2] * 65536 + b[3] * 256 + b[4]

\* What enviar_bytes hands to sendall: longitud + data.
Trama(data) == pack_I(Len(data)) \o data

RECURSIVE Aplanar(_)
Aplanar(ss) == IF ss = << >> THEN << >> ELSE Trama(Head(ss).data) \o Aplanar(Tail(ss))

EsPrefijo(a, b) == Len(a) <= Len(b) /\ a = SubSeq(b, 1, Len(a))

TxAdquirir_SinLock(e, data) ==
  /\ pcTx[e] = "fuera"
  /\ ~ cerradoTx
  /\ Len(enviadas) < MaxTramas
  /\ lock_send' = e
  /\ locTx' = [locTx EXCEPT ![e] = Trama(data)]
  /\ enviadas' = Append(enviadas, [emisor |-> e, data |-> data])
  /\ pcTx' = [pcTx EXCEPT ![e] = "escribir"]
  /\ UNCHANGED << turno, estados, next_id, conn, pcEnviar, locEnviar, pcBucle, locBucle, salida >>
  /\ UNCHANGED << flujo, cerradoTx, leidos, pcRx, locRx, entregados >>
  /\ UNCHANGED sinCable

\* enviar_bytes, lines 71-72: with self.lock_send, then longitud + data.
TxAdquirir(e, data) ==
  /\ pcTx[e] = "fuera"
  /\ ~ cerradoTx
  /\ Len(enviadas) < MaxTramas
  /\ lock_send = "libre"
  /\ lock_send' = e
  /\ locTx' = [locTx EXCEPT ![e] = Trama(data)]
  /\ enviadas' = Append(enviadas, [emisor |-> e, data |-> data])
  /\ pcTx' = [pcTx EXCEPT ![e] = "escribir"]
  /\ UNCHANGED << turno, estados, next_id, conn, pcEnviar, locEnviar, pcBucle, locBucle, salida >>
  /\ UNCHANGED << flujo, cerradoTx, leidos, pcRx, locRx, entregados >>
  /\ UNCHANGED sinCable

\* Line 73: sendall writes the next k bytes of what is left.
TxEscribir(e, k) ==
  /\ pcTx[e] = "escribir"
  /\ ~ cerradoTx
  /\ k \in 1..Len(locTx[e])
  /\ flujo' = flujo \o SubSeq(locTx[e], 1, k)
  /\ locTx' = [locTx EXCEPT ![e] = SubSeq(@, k + 1, Len(@))]
  /\ pcTx' = [pcTx EXCEPT ![e] = IF k = Len(locTx[e]) THEN "soltar" ELSE "escribir"]
  /\ UNCHANGED << turno, estados, next_id, conn, pcEnviar, locEnviar, pcBucle, locBucle, salida >>
  /\ UNCHANGED << lock_send, enviadas, cerradoTx, leidos, pcRx, locRx, entregados >>
  /\ UNCHANGED sinCable

\* Line 73 on a closed connection: sendall raises, the with block releases
\* the lock and the rest of the frame is never written.
TxFalla(e) ==
  /\ pcTx[e] = "escribir"
  /\ cerradoTx
  /\ lock_send' = "libre"
  /\ locTx' = [locTx EXCEPT ![e] = << >>]
  /\ pcTx' = [pcTx EXCEPT ![e] = "fuera"]
  /\ UNCHANGED << turno, estados, next_id, conn, pcEnviar, locEnviar, pcBucle, locBucle, salida >>
  /\ UNCHANGED << enviadas, flujo, cerradoTx, leidos, pcRx, locRx, entregados >>
  /\ UNCHANGED sinCable

\* Leaving the with block once sendall has returned.
TxSoltar(e) ==
  /\ pcTx[e] = "soltar"
  /\ lock_send' = "libre"
  /\ pcTx' = [pcTx EXCEPT ![e] = "fuera"]
  /\ UNCHANGED << turno, estados, next_id, conn, pcEnviar, locEnviar, pcBucle, locBucle, salida >>
  /\ UNCHANGED << locTx, enviadas, flujo, cerradoTx, leidos, pcRx, locRx, entregados >>
  /\ UNCHANGED sinCable

\* The sending side closes the connection.
TxCierra ==
  /\ ~ cerradoTx
  /\ cerradoTx' = TRUE
  /\ UNCHANGED << turno, estados, next_id, conn, pcEnviar, locEnviar, pcBucle, locBucle, salida >>
  /\ UNCHANGED << lock_send, pcTx, locTx, enviadas, flujo, leidos, pcRx, locRx, entregados >>
  /\ UNCHANGED sinCable

\* recibir_bytes, line 80: cabecera = self._recibir_exactamente(4).
RxLlamar ==
  /\ pcRx = "fuera"
  /\ Len(entregados) <= MaxTramas
  /\ pcRx' = "cab"
  /\ locRx' = [n |-> 4, datos |-> << >>]
  /\ UNCHANGED << turno, estados, next_id, conn, pcEnviar, locEnviar, pcBucle, locBucle, salida >>
  /\ UNCHANGED << lock_send, pcTx, locTx, enviadas, flujo, cerradoTx, leidos, entregados >>
  /\ UNCHANGED sinCable

\* Variant of RxRecv: at the end of the stream _recibir_exactamente returns
\* what it has collected.
RxRecv_Parcial(k) ==
  /\ pcRx \in {"cab", "cuerpo"}
  /\ Len(locRx.datos) < locRx.n
  /\ IF leidos = Len(flujo)
     THEN /\ cerradoTx
          /\ k = 1
          /\ entregados' = Append(entregados, locRx.datos)
          /\ pcRx' = "fuera"
          /\ locRx' = [n |-> 0, datos |-> << >>]
          /\ UNCHANGED leidos
     ELSE /\ k \in 1..Min(locRx.n - Len(locRx.datos), Len(flujo) - leidos)
          /\ locRx' = [locRx EXCEPT !.datos = @ \o SubSeq(flujo, leidos + 1, leidos + k)]
          /\ leidos' = leidos + k
          /\ UNCHANGED << pcRx, entregados >>
  /\ UNCHANGED << turno, estados, next_id, conn, pcEnviar, locEnviar, pcBucle, locBucle, salida >>
  /\ UNCHANGED << lock_send, pcTx, locTx, enviadas, flujo, cerradoTx >>
  /\ UNCHANGED sinCable

\* _recibir_exactamente, lines 92-97: one recv(n - len(datos)).  It returns k
\* bytes, as many as it likes of those that have arrived; b'' at the end of
\* the stream, and then both _recibir_exactamente and recibir_bytes return
\* b''; it blocks while nothing has arrived on an open connection.
RxRecv(k) ==
  /\ pcRx \in {"cab", "cuerpo"}
  /\ Len(locRx.datos) < locRx.n
  /\ IF leidos = Len(flujo)
     THEN /\ cerradoTx
          /\ k = 1
          /\ entregados' = Append(entregados, << >>)
          /\ pcRx' = "fuera"
          /\ locRx' = [n |-> 0, datos |-> << >>]
          /\ UNCHANGED leidos
     ELSE /\ k \in 1..Min(locRx.n - Len(locRx.datos), Len(flujo) - leidos)
          /\ locRx' = [locRx EXCEPT !.datos = @ \o SubSeq(flujo, leidos + 1, leidos + k)]
          /\ leidos' = leidos + k
          /\ UNCHANGED << pcRx, entregados >>
  /\ UNCHANGED << turno, estados, next_id, conn, pcEnviar, locEnviar, pcBucle, locBucle, salida >>
  /\ UNCHANGED << lock_send, pcTx, locTx, enviadas, flujo, cerradoTx >>
  /\ UNCHANGED sinCable

\* _recibir_exactamente, lines 91 and 98: the while ends and datos is
\* returned.  After the prefix, lines 81-84 unpack it and read the body;
\* after the body, recibir_bytes returns it.
RxCompleto ==
  /\ pcRx \in {"cab", "cuerpo"}
  /\ Len(locRx.datos) >= locRx.n
  /\ IF pcRx = "cab"
     THEN /\ pcRx' = "cuerpo"
          /\ locRx' = [n |-> unpack_I(locRx.datos), datos |-> << >>]
          /\ UNCHANGED entregados
     ELSE /\ entregados' = Append(entregados, locRx.datos)
          /\ pcRx' = "fuera"
          /\ locRx' = [n |-> 0, datos |-> << >>]
  /\ UNCHANGED << turno, estados, next_id, conn, pcEnviar, locEnviar, pcBucle, locBucle, salida >>
  /\ UNCHANGED << lock_send, pcTx, locTx, enviadas, flujo, cerradoTx, leidos >>
  /\ UNCHANGED sinCable

CableEnvia == \E e \in Emisores : \E data \in Contenidos : TxAdquirir(e, data)

CableEscribe == \E e \in Emisores : \E k \in 1..(4 + 2) : TxEscribir(e, k)

CableFalla == \E e \in Emisores : TxFalla(e)

CableSuelta == \E e \in Emisores : TxSoltar(e)

CableRecv == \E k \in 1..4 : RxRecv(k)

NextCable ==
  \/ CableEnvia \/ CableEscribe \/ CableFalla \/ CableSuelta \/ TxCierra
  \/ RxLlamar \/ CableRecv \/ RxCompleto

SpecCable == Init /\ [][NextCable]_vars

\* SpecCodec: Mensaje and Cabecera by themselves.  A message is created from
\* a payload and field values, encoded, and its encoding decoded, either as
\* it is or after one bit of its payload bytes was flipped.
CodecBytes == {0, 107, 255}

RECURSIVE Cadenas(_)
Cadenas(n) ==
  IF n = 0 THEN { << >> }
  ELSE Cadenas(n - 1) \cup { Append(c, b) : c \in { x \in Cadenas(n - 1) : Len(x) = n - 1 }, b \in CodecBytes }

Cargas == Cadenas(MaxLen) \cup { CargaLarga }
Protocolos == {0, PROTOCOL_ID, 65535}
Prioridades == {0, 255}
IdsCodec == {0, 1, MaxId}

\* The byte b with its bit k (0 the least significant) flipped.
Voltear(b, k) == IF Bit(b, k) = 1 THEN b - 2 ^ k ELSE b + 2 ^ k

\* Mensaje(texto, id_protocolo, prioridad, id_mensaje, tipo_operacion).
CodecCrear(texto, id_protocolo, prioridad, id_mensaje, tipo) ==
  /\ pcCodec = "crear"
  /\ original' = MensajeConPrioridad(texto, id_protocolo, prioridad, id_mensaje, tipo)
  /\ pcCodec' = "codificar"
  /\ UNCHANGED << turno, estados, next_id, conn, pcEnviar, locEnviar, pcBucle, locBucle, salida >>
  /\ UNCHANGED << codificado, decodificado, recodificado >>
  /\ UNCHANGED sinCodec

\* original.codificar(): a_bytes raises struct.error when a field does not
\* fit, otherwise the header bytes and the payload are returned.
CodecCodificar ==
  /\ pcCodec = "codificar"
  /\ IF empaquetable(original.cabecera)
     THEN /\ codificado' = codificar(original)
          /\ pcCodec' = "codificado"
     ELSE /\ pcCodec' = "error_struct"
          /\ UNCHANGED codificado
  /\ UNCHANGED << turno, estados, next_id, conn, pcEnviar, locEnviar, pcBucle, locBucle, salida >>
  /\ UNCHANGED << original, decodificado, recodificado >>
  /\ UNCHANGED sinCodec

\* One bit of one payload byte of the encoding changes; the header stays.
CodecDanar(i, k) ==
  /\ pcCodec = "codificado"
  /\ i \in 1..Len(original.payload)
  /\ codificado' = [codificado EXCEPT ![HEADER_SIZE + i] = Voltear(@, k)]
  /\ pcCodec' = "danado"
  /\ UNCHANGED << turno, estados, next_id, conn, pcEnviar, locEnviar, pcBucle, locBucle, salida >>
  /\ UNCHANGED << original, decodificado, recodificado >>
  /\ UNCHANGED sinCodec

\* Mensaje.decodificar(codificado).
CodecDecodificar ==
  /\ pcCodec \in {"codificado", "danado"}
  /\ decodificado' = decodificar(codificado)
  /\ pcCodec' = IF pcCodec = "codificado" THEN "hecho" ELSE "hecho_danado"
  /\ UNCHANGED << turno, estados, next_id, conn, pcEnviar, locEnviar, pcBucle, locBucle, salida >>
  /\ UNCHANGED << original, codificado, recodificado >>
  /\ UNCHANGED sinCodec

\* The exercise starts again with another message.
CodecOtro ==
  /\ pcCodec \in {"hecho", "hecho_danado", "error_struct"}
  /\ pcCodec' = "crear"
  /\ original' = SinMensaje
  /\ codificado' = << >>
  /\ decodificado' = SinDecodificar
  /\ UNCHANGED recodificado
  /\ UNCHANGED << turno, estados, next_id, conn, pcEnviar, locEnviar, pcBucle, locBucle, salida >>
  /\ UNCHANGED sinCodec

CodecCrea ==
  \E texto \in Cargas : \E idp \in Protocolos : \E pr \in Prioridades :
    \E id \in IdsCodec : \E tipo \in Tipos :
      CodecCrear(texto, idp, pr, id, tipo)

CodecDana == \E i \in 1..MaxLen : \E k \in 0..7 : CodecDanar(i, k)

NextCodec == CodecCrea \/ CodecCodificar \/ CodecDana \/ CodecDecodificar \/ CodecOtro

SpecCodec == Init /\ [][NextCodec]_vars

\* SpecTramas: Mensaje.decodificar on frames as the transport may hand them
\* over.  A frame is any header (its fields at both ends of their ranges,
\* longitud_carga and crc32 whatever the sender wrote) followed by any bytes,
\* or the beginning of a header; it is decoded and, when decodificar returns a
\* message, the message is encoded again.
Colas == Cadenas(MaxCola)
Marcas == {0, Ahora}
Longitudes == 0..(MaxCola + 2)

\* Values of the crc32 field: the CRC of each beginning of the bytes that
\* follow the header, and a value that is the CRC of none of them.
CrcsDe(cola) == { crc32(SubSeq(cola, 1, n)) : n \in 0..Len(cola) } \cup { << 0, 1 >> }

\* recibir_bytes hands data to the caller.
TramaLlegar(data) ==
  /\ pcCodec = "crear"
  /\ codificado' = data
  /\ pcCodec' = "llegada"
  /\ UNCHANGED << turno, estados, next_id, conn, pcEnviar, locEnviar, pcBucle, locBucle, salida >>
  /\ UNCHANGED << original, decodificado, recodificado >>
  /\ UNCHANGED sinCodec

\* Mensaje.decodificar(data).
TramaDecodificar ==
  /\ pcCodec = "llegada"
  /\ decodificado' = decodificar(codificado)
  /\ pcCodec' = "decodificada"
  /\ UNCHANGED << turno, estados, next_id, conn, pcEnviar, locEnviar, pcBucle, locBucle, salida >>
  /\ UNCHANGED << original, codificado, recodificado >>
  /\ UNCHANGED sinCodec

\* codificar() of the message decodificar returned.
TramaRecodificar ==
  /\ pcCodec = "decodificada"
  /\ decodificado.ok
  /\ empaquetable(decodificado.mensaje.cabecera)
  /\ recodificado' = codificar(decodificado.mensaje)
  /\ pcCodec' = "recodificada"
  /\ UNCHANGED << turno, estados, next_id, conn, pcEnviar, locEnviar, pcBucle, locBucle, salida >>
  /\ UNCHANGED << original, codificado, decodificado >>
  /\ UNCHANGED sinCodec

\* The next frame.
TramaOtra ==
  /\ pcCodec \in {"decodificada", "recodificada"}
  /\ pcCodec' = "crear"
  /\ codificado' = << >>
  /\ decodificado' = SinDecodificar
  /\ recodificado' = << >>
  /\ UNCHANGED << turno, estados, next_id, conn, pcEnviar, locEnviar, pcBucle, locBucle, salida >>
  /\ UNCHANGED original
  /\ UNCHANGED sinCodec

TramaEntera ==
  \E tipo \in {TIPO_ENVIO, TIPO_RESPUESTA} : \E pr \in Prioridades :
    \E mt \in Marcas : \E id \in {0, MaxId} : \E n \in Longitudes :
      \E cola \in Colas : \E c \in CrcsDe(cola) :
        TramaLlegar(<< 1, PROTOCOL_ID, tipo, pr, mt, id, n, c >> \o cola)

TramaCorta ==
  \E k \in 1..(HEADER_SIZE - 1) :
    TramaLlegar(SubSeq(<< 1, PROTOCOL_ID, TIPO_ENVIO, 0, Ahora, 1, 0, crc32(<< >>) >>, 1, k))

NextTramas == TramaEntera \/ TramaCorta \/ TramaDecodificar \/ TramaRecodificar \/ TramaOtra

SpecTramas == Init /\ [][NextTramas]_vars

\* SpecIds: several threads of one process (Yo's) construct fresh messages,
\* Mensaje(texto) without id_mensaje, at the same time.  Each construction
\* takes Mensaje._id_lock, reads Mensaje._next_id, adds one to it (a load and a
\* store) and releases the lock.
EnCurso == Cardinality({t \in Hilos : pcMsg[t] # "fuera"})

MsgAdquirir_SinLock(t) ==
  /\ pcMsg[t] = "fuera"
  /\ EnCurso + Len(emitidos) < MaxCons
  /\ id_lock' = t
  /\ pcMsg' = [pcMsg EXCEPT ![t] = "leer"]
  /\ UNCHANGED << turno, estados, next_id, conn, pcEnviar, locEnviar, pcBucle, locBucle, salida, locMsg, emitidos >>
  /\ UNCHANGED sinGen

\* with Mensaje._id_lock:
MsgAdquirir(t) ==
  /\ pcMsg[t] = "fuera"
  /\ EnCurso + Len(emitidos) < MaxCons
  /\ id_lock = None
  /\ id_lock' = t
  /\ pcMsg' = [pcMsg EXCEPT ![t] = "leer"]
  /\ UNCHANGED << turno, estados, next_id, conn, pcEnviar, locEnviar, pcBucle, locBucle, salida, locMsg, emitidos >>
  /\ UNCHANGED sinGen

\* self.id_mensaje = Mensaje._next_id
MsgLeer(t) ==
  /\ pcMsg[t] = "leer"
  /\ locMsg' = [locMsg EXCEPT ![t] = next_id[Yo]]
  /\ emitidos' = Append(emitidos, [hilo |-> t, id_mensaje |-> next_id[Yo]])
  /\ pcMsg' = [pcMsg EXCEPT ![t] = "cargar"]
  /\ UNCHANGED << turno, estados, next_id, conn, pcEnviar, locEnviar, pcBucle, locBucle, salida, id_lock >>
  /\ UNCHANGED sinGen

\* Mensaje._next_id += 1, the load
MsgCargar(t) ==
  /\ pcMsg[t] = "cargar"
  /\ locMsg' = [locMsg EXCEPT ![t] = next_id[Yo]]
  /\ pcMsg' = [pcMsg EXCEPT ![t] = "guardar"]
  /\ UNCHANGED << turno, estados, next_id, conn, pcEnviar, locEnviar, pcBucle, locBucle, salida, id_lock, emitidos >>
  /\ UNCHANGED sinGen

\* Mensaje._next_id += 1, the store
MsgGuardar(t) ==
  /\ pcMsg[t] = "guardar"
  /\ next_id' = [next_id EXCEPT ![Yo] = locMsg[t] + 1]
  /\ pcMsg' = [pcMsg EXCEPT ![t] = "soltar"]
  /\ UNCHANGED << turno, estados, conn, pcEnviar, locEnviar, pcBucle, locBucle, salida, id_lock, locMsg, emitidos >>
  /\ UNCHANGED sinGen

\* leaving the with block
MsgSoltar(t) ==
  /\ pcMsg[t] = "soltar"
  /\ id_lock' = None
  /\ locMsg' = [locMsg EXCEPT ![t] = None]
  /\ pcMsg' = [pcMsg EXCEPT ![t] = "fuera"]
  /\ UNCHANGED << turno, estados, next_id, conn, pcEnviar, locEnviar, pcBucle, locBucle, salida, emitidos >>
  /\ UNCHANGED sinGen

NextIds ==
  \E t \in Hilos :
    \/ MsgAdquirir(t)
    \/ MsgLeer(t)
    \/ MsgCargar(t)
    \/ MsgGuardar(t)
    \/ MsgSoltar(t)

SpecIds == Init /\ [][NextIds]_vars

\* ===================================================== checked properties
Idle(p) == waiting_for_response_id[p] = None /\ pending_request_id[p] = None

\* The step on which the running enviar_texto call returns.
VuelveEnviar == pcEnviar[Yo] # "listo" /\ pcEnviar'[Yo] = "listo"

\* The step on which the receive loop finishes the frame it had decoded.
VuelveBucle == pcBucle[Yo] # "recibir" /\ pcBucle'[Yo] = "recibir"

\* Fields of the frame the receive loop is processing.
TipoEnCurso == locBucle[Yo].mensaje.cabecera.tipo_operacion
IdEnCurso == locBucle[Yo].mensaje.id_mensaje

\* data is the encoding of a message of this type, id and payload.
EsTrama(data, tipo, id, payload) ==
  LET r == decodificar(data)
  IN /\ r.ok
     /\ r.mensaje.cabecera.tipo_operacion = tipo
     /\ r.mensaje.id_mensaje = id
     /\ r.mensaje.cabecera.longitud_carga = Len(payload)
     /\ r.mensaje.payload = payload
     /\ Len(data) = HEADER_SIZE + Len(payload)

\* C1: with submit calls and inbound frames each handled as one atomic step,
\* no reachable state has both waiting_for_response_id and
\* pending_request_id set.
C1_TurnoExclusivo ==
  \A p \in Peers :
    waiting_for_response_id[p] = None \/ pending_request_id[p] = None

\* C1 witness: a REQUEST arrived while this side was waiting for an answer
\* and was not accepted.
C1_Witness ==
  /\ waiting_for_response_id[Yo] # None
  /\ salida[Yo].que = "no_aceptada"

\* C2: when enviar_texto and _bucle_recepcion run as two threads whose steps
\* interleave, no interleaving reaches a state with both turn fields set.
\* (Stated as claimed; checked under SpecHilos.)
C2_TurnoExclusivoHilos ==
  ~ (waiting_for_response_id[Yo] # None /\ pending_request_id[Yo] # None)

\* C3: a submit called while Idle writes exactly one frame, a REQUEST whose
\* id is the generator's next value and whose payload is the text; the
\* generator advances by one, and on return waiting_for_response_id is that
\* id and pending_request_id is still None.
C3_SubmitIdle ==
  [][ (VuelveEnviar /\ locEnviar[Yo].antes.w = None /\ locEnviar[Yo].antes.p = None)
      => /\ Len(locEnviar[Yo].tramas) = 1
         /\ EsTrama(locEnviar[Yo].tramas[1], TIPO_ENVIO,
                    locEnviar[Yo].antes.n, locEnviar[Yo].texto)
         /\ next_id'[Yo] = locEnviar[Yo].antes.n + 1
         /\ waiting_for_response_id'[Yo] = locEnviar[Yo].antes.n
         /\ pending_request_id'[Yo] = None ]_vars

\* C3 witness: a request was sent from Idle and this side now waits for it.
C3_Witness ==
  /\ salida[Yo].que = "enviado"
  /\ waiting_for_response_id[Yo] = salida[Yo].id
  /\ pcEnviar[Yo] = "listo"

\* C4: every REQUEST received has its payload printed; for a REQUEST with id
\* r received while Idle the loop has written exactly one frame, the ACK
\* with id r and an empty payload, while pending_request_id was still None,
\* and finishes by setting pending_request_id to r with
\* waiting_for_response_id still None.
C4_RequestIdle ==
  [][ /\ (pcBucle[Yo] = "recibir" /\ pcBucle'[Yo] = "ack")
         => salida'[Yo] = Linea("recibido", locBucle'[Yo].mensaje.id_mensaje,
                                Slice(locBucle'[Yo].data, HEADER_SIZE,
                                      Len(locBucle'[Yo].data)))
      /\ (VuelveBucle /\ TipoEnCurso = TIPO_ENVIO
            /\ locBucle[Yo].antes.w = None /\ locBucle[Yo].antes.p = None)
         => /\ pending_request_id[Yo] = None
            /\ Len(locBucle[Yo].tramas) = 1
            /\ EsTrama(locBucle[Yo].tramas[1], TIPO_RECIBIDO, IdEnCurso, <<>>)
            /\ pending_request_id'[Yo] = IdEnCurso
            /\ waiting_for_response_id'[Yo] = None ]_vars

\* C4 witness: a REQUEST was accepted from Idle.
C4_Witness ==
  /\ salida[Yo].que = "debe_responder"
  /\ pending_request_id[Yo] = salida[Yo].id
  /\ waiting_for_response_id[Yo] = None

\* C5: a submit called while pending_request_id = r writes exactly one
\* frame, a RESPONSE with id r and the text as payload, draws no id, and
\* returns with both turn fields None.
C5_SubmitOwing ==
  [][ (VuelveEnviar /\ locEnviar[Yo].antes.p # None)
      => /\ Len(locEnviar[Yo].tramas) = 1
         /\ EsTrama(locEnviar[Yo].tramas[1], TIPO_RESPUESTA,
                    locEnviar[Yo].antes.p, locEnviar[Yo].texto)
         /\ next_id'[Yo] = locEnviar[Yo].antes.n
         /\ pending_request_id'[Yo] = None
         /\ waiting_for_response_id'[Yo] = None ]_vars

\* C5 witness: an answer was sent and this side is Idle again.
C5_Witness ==
  /\ salida[Yo].que = "respuesta_enviada"
  /\ Idle(Yo)
  /\ pcEnviar[Yo] = "listo"

\* C6: for a RESPONSE whose id equals waiting_for_response_id the loop
\* prints its payload, writes no frame, and finishes with both turn fields
\* None (Idle, from where a submit sends a new REQUEST: C3).
C6_RespuestaEsperada ==
  [][ (VuelveBucle /\ TipoEnCurso = TIPO_RESPUESTA
         /\ IdEnCurso = locBucle[Yo].antes.w)
      => /\ salida'[Yo] = Linea("respuesta", IdEnCurso,
                                Slice(locBucle[Yo].data, HEADER_SIZE,
                                      Len(locBucle[Yo].data)))
         /\ locBucle[Yo].tramas = <<>>
         /\ waiting_for_response_id'[Yo] = None
         /\ pending_request_id'[Yo] = None ]_vars

\* C6 witness: the awaited answer arrived, and the submit that followed
\* sent the next request.
C6_Witness ==
  /\ salida[Yo].que = "enviado"
  /\ salida[Yo].id = 2
  /\ waiting_for_response_id[Yo] = 2

\* C7: a submit called while waiting_for_response_id is set and
\* pending_request_id is None writes no frame, draws no id and leaves both
\* turn fields as they were.
C7_SubmitEsperando ==
  [][ (VuelveEnviar /\ locEnviar[Yo].antes.w # None /\ locEnviar[Yo].antes.p = None)
      => /\ locEnviar[Yo].tramas = <<>>
         /\ conn'[Yo] = conn[Yo]
         /\ next_id'[Yo] = locEnviar[Yo].antes.n
         /\ waiting_for_response_id'[Yo] = locEnviar[Yo].antes.w
         /\ pending_request_id'[Yo] = None ]_vars

\* C7 witness: a submit was refused while waiting.
C7_Witness ==
  /\ salida[Yo].que = "bloqueado"
  /\ waiting_for_response_id[Yo] # None
  /\ pcEnviar[Yo] = "listo"

\* C8 as claimed: for a REQUEST received while either turn field is set the
\* loop writes no frame at all.
C8_DescartadaSinTrama ==
  [][ (VuelveBucle /\ TipoEnCurso = TIPO_ENVIO
         /\ (locBucle[Yo].antes.w # None \/ locBucle[Yo].antes.p # None))
      => locBucle[Yo].tramas = <<>> ]_vars

\* C8 amended: for a REQUEST received while either turn field is set, both
\* turn fields keep their values and the only frame the loop writes is the
\* ACK with the request's id and an empty payload, as for an accepted one.
C8_DescartadaSoloAck ==
  [][ (VuelveBucle /\ TipoEnCurso = TIPO_ENVIO
         /\ (locBucle[Yo].antes.w # None \/ locBucle[Yo].antes.p # None))
      => /\ Len(locBucle[Yo].tramas) = 1
         /\ EsTrama(locBucle[Yo].tramas[1], TIPO_RECIBIDO, IdEnCurso, <<>>)
         /\ waiting_for_response_id'[Yo] = locBucle[Yo].antes.w
         /\ pending_request_id'[Yo] = locBucle[Yo].antes.p ]_vars

\* C8 witness: a REQUEST was dropped because another one was pending.
C8_Witness ==
  /\ salida[Yo].que = "ignorada"
  /\ pending_request_id[Yo] # None
  /\ pcBucle[Yo] = "recibir"

\* C9: a step of the receive loop changes the turn fields only when it
\* finishes a REQUEST taken while both were None (pending_request_id becomes
\* its id) or a RESPONSE whose id was waiting_for_response_id (which becomes
\* None), and in both cases it does; every other frame (ACK, READ_RECEIPT,
\* other RESPONSE, REQUEST while a field is set, ERROR, undecodable) leaves
\* both fields unchanged.
C9_SoloDosCasos ==
  [][ (pcEnviar[Yo] = "listo" /\ pcEnviar'[Yo] = "listo")
      => LET pre1 == /\ TipoEnCurso = TIPO_ENVIO
                     /\ locBucle[Yo].antes.w = None
                     /\ locBucle[Yo].antes.p = None
             pre2 == /\ TipoEnCurso = TIPO_RESPUESTA
                     /\ IdEnCurso = locBucle[Yo].antes.w
         IN /\ turno' # turno => VuelveBucle /\ (pre1 \/ pre2)
            /\ (VuelveBucle /\ pre1)
               => /\ pending_request_id'[Yo] = IdEnCurso
                  /\ waiting_for_response_id'[Yo] = None
            /\ (VuelveBucle /\ pre2)
               => /\ waiting_for_response_id'[Yo] = None
                  /\ pending_request_id'[Yo] = locBucle[Yo].antes.p
            /\ (VuelveBucle /\ ~pre1 /\ ~pre2) => turno' = turno ]_vars

\* C9 witness: a RESPONSE with another id arrived while waiting and the
\* turn stayed as it was.
C9_Witness ==
  /\ salida[Yo].que = "inesperada"
  /\ waiting_for_response_id[Yo] # None
  /\ salida[Yo].id # waiting_for_response_id[Yo]

\* C10: with a coordinator at each end of one connection, no reachable state
\* has both ends waiting for an answer.  (Stated as claimed; checked under
\* SpecPares.)
C10_NuncaAmbosEsperando ==
  ~ (waiting_for_response_id["A"] # None /\ waiting_for_response_id["B"] # None)

\* C15: the generator starts at 1 and, whatever threads construct fresh
\* messages at the same time, the k-th construction to take the generator lock
\* gets id k: no id is handed out twice and none is skipped.
C15_IdsCrecientes ==
  \A i \in 1..Len(emitidos) : emitidos[i].id_mensaje = i

\* Every construction allowed has been made, by more than one thread.
C15_Witness ==
  /\ Len(emitidos) = MaxCons
  /\ \E i, j \in 1..Len(emitidos) : emitidos[i].hilo # emitidos[j].hilo
  /\ \A t \in Hilos : pcMsg[t] = "fuera"
  /\ next_id[Yo] = MaxCons + 1

\* C16: only a fresh message built without an id (the request of a submit)
\* advances the generator, by one; building the ACK of a request or the
\* RESPONSE to it, and receiving and decoding a frame, leave it as it was.
C16_SoloMensajeNuevo ==
  [][ next_id'[Yo] # next_id[Yo]
      => /\ pcEnviar[Yo] = "mk_req"
         /\ next_id'[Yo] = next_id[Yo] + 1 ]_vars

\* A request was decoded and acknowledged and its RESPONSE has been built,
\* and the generator still holds its first value.
C16_Witness ==
  /\ pcEnviar[Yo] = "send_resp"
  /\ locEnviar[Yo].mensaje.cabecera.tipo_operacion = TIPO_RESPUESTA
  /\ locEnviar[Yo].mensaje.id_mensaje = pending_request_id[Yo]
  /\ next_id[Yo] = 1

\* C12: a received frame that fails header decoding or the CRC check is
\* reported and nothing else happens: the turn fields, the frames written,
\* the statuses and the generator stay as they were and the loop is back at
\* its receive, so the next frame is handled as if this one had not arrived.
C12_DecodificarNoFatal ==
  /\ [](pcBucle[Yo] # "fin")
  /\ [][ /\ salida'[Yo].que = "error_decodificar"
         /\ salida[Yo].que # "error_decodificar"
         => /\ pcBucle[Yo] = "recibir"
            /\ pcBucle'[Yo] = "recibir"
            /\ UNCHANGED << turno, conn, estados, next_id, pcEnviar, locEnviar, locBucle >> ]_vars

\* A frame was reported as undecodable and the frame after it, an ACK, has
\* been decoded and is being processed.
C12_Witness ==
  /\ salida[Yo].que = "error_decodificar"
  /\ pcBucle[Yo] = "est_recibido"
  /\ locBucle[Yo].mensaje.cabecera.tipo_operacion = TIPO_RECIBIDO

\* C13: once receive has returned the empty result (the peer closed) or has
\* raised a transport error, the receive loop is over and the connection is
\* closed.  (Stated as claimed; the loop thread takes no step after it has
\* ended, so a connection still open then is never closed by it.)
C13_FinCierraConexion ==
  ( \/ pcBucle[Yo] = "fin" /\ salida[Yo].que = "desconectado"
    \/ pcBucle[Yo] = "caido" /\ salida[Yo] = Linea("excepcion", None, <<>>) )
  => sock[Yo] = "cerrado"

\* C14: once detener() has closed the connection, the receive the loop is
\* blocked in, or about to call, ends only with the disconnect result, and
\* the loop then finishes.  (Stated as claimed.)
C14_DetenerDesconecta ==
  [][ /\ pcDetener[Yo] = "hecho"
      /\ pcBucle[Yo] = "en_recv"
      /\ pcBucle'[Yo] # "en_recv"
      => /\ pcBucle'[Yo] = "fin"
         /\ salida'[Yo].que = "desconectado" ]_vars

\* C11: when the send of a frame fails in the coordinator (the REQUEST or the
\* RESPONSE of a submit, or the ACK of the receive loop), so that the handler
\* built a frame and wrote none, both turn fields keep their values.
\* (Stated as claimed; checked on ChatGUI's handlers.)
C11_FalloSinTransicion ==
  [][ /\ ( /\ locBucle'[Yo] # locBucle[Yo]
           /\ locBucle'[Yo].mensaje.cabecera.tipo_operacion = TIPO_ENVIO
           /\ locBucle'[Yo].tramas = << >> )
         => UNCHANGED turno
      /\ ( /\ locEnviar'[Yo] # locEnviar[Yo]
           /\ locEnviar'[Yo].mensaje # SinMensaje
           /\ locEnviar'[Yo].tramas = << >> )
         => UNCHANGED turno ]_vars

\* C17: whatever threads call enviar_bytes at the same time, the bytes on the
\* connection are the frames in the order their callers took the send lock,
\* each whole (four length bytes, then that many content bytes of the one
\* caller) before the next one starts; only the last may be unfinished.
C17_TramasEnteras ==
  EsPrefijo(flujo, Aplanar(enviadas))

\* Every frame allowed has been written whole, by more than one thread.
C17_Witness ==
  /\ Len(enviadas) = MaxTramas
  /\ flujo = Aplanar(enviadas)
  /\ \E i, j \in 1..Len(enviadas) : enviadas[i].emisor # enviadas[j].emisor
  /\ \E i, j \in 1..Len(enviadas) : enviadas[i].data # enviadas[j].data

\* C18: the i-th call of recibir_bytes returns the whole content of the i-th
\* frame sent, or the empty sequence once the sender has closed; never part of
\* a frame, however the stream was delivered.
C18_TramaEnteraOVacio ==
  \A i \in 1..Len(entregados) :
    \/ /\ i <= Len(enviadas)
       /\ entregados[i] = enviadas[i].data
    \/ /\ entregados[i] = << >>
       /\ cerradoTx

\* Two frames were returned whole and in order; the sender closed in the
\* middle of the third, and the third call returned the empty sequence.
C18_Witness ==
  /\ Len(enviadas) = 3
  /\ Len(entregados) = 3
  /\ entregados[1] = enviadas[1].data
  /\ entregados[2] = enviadas[2].data
  /\ enviadas[1].data # enviadas[2].data
  /\ entregados[3] = << >>
  /\ Len(flujo) > Len(Aplanar(SubSeq(enviadas, 1, 2))) + 4
  /\ Len(flujo) < Len(Aplanar(enviadas))

\* What C19 asks of a decoding: a message with the payload and every header
\* field but the timestamp of the original.
IgualSalvoTiempo ==
  /\ decodificado.ok
  /\ decodificado.mensaje.payload = original.payload
  /\ decodificado.mensaje.id_protocolo = original.id_protocolo
  /\ decodificado.mensaje.prioridad = original.prioridad
  /\ decodificado.mensaje.id_mensaje = original.id_mensaje
  /\ decodificado.mensaje.crc32 = original.crc32
  /\ \A f \in {"version", "id_protocolo", "tipo_operacion", "prioridad",
               "id_mensaje", "longitud_carga", "crc32"} :
       decodificado.mensaje.cabecera[f] = original.cabecera[f]

\* C19 as claimed: every created message, whatever its payload, can be
\* encoded, and decoding the encoding gives back its payload and fields.
C19_IdaYVueltaToda ==
  /\ pcCodec # "error_struct"
  /\ pcCodec = "hecho" => IgualSalvoTiempo

\* C19, amended: that holds for every payload of at most 65535 bytes (with
\* in-range protocol id, operation type, priority and message id); a longer
\* payload does not fit the 2-byte length field and encoding raises.
C19_IdaYVuelta ==
  /\ pcCodec = "error_struct" <=>
       (pcCodec \notin {"crear", "codificar"} /\ Len(original.payload) > MAX_CARGA)
  /\ pcCodec = "hecho" => IgualSalvoTiempo

\* A message with a two-byte payload, the largest protocol id and priority
\* and message id 0 has been encoded and decoded.
C19_Witness ==
  /\ pcCodec = "hecho"
  /\ Len(original.payload) = MaxLen
  /\ original.prioridad = 255
  /\ original.id_protocolo = 65535
  /\ original.id_mensaje = 0
  /\ original.cabecera.tipo_operacion = TIPO_RESPUESTA
  /\ IgualSalvoTiempo

\* C20: when one bit of the payload bytes of an encoding is flipped and the
\* header is left as it was, decodificar raises the CRC error instead of
\* returning a message.
C20_BitDetectado ==
  pcCodec = "hecho_danado"
  => /\ ~ decodificado.ok
     /\ decodificado.error = "crc"

\* The top bit of the second payload byte was flipped and the decoding failed
\* on the CRC.
C20_Witness ==
  /\ pcCodec = "hecho_danado"
  /\ Len(original.payload) = 2
  /\ codificado[HEADER_SIZE + 1] = original.payload[1]
  /\ codificado[HEADER_SIZE + 2] = Voltear(original.payload[2], 7)
  /\ decodificado.error = "crc"


\* The frame handed to decodificar has been decoded.
Decodificada == pcCodec \in {"decodificada", "recodificada"}

\* The bytes that follow the header in the frame, and the number of them the
\* header declares.
ColaDe(data) == SubSeq(data, HEADER_SIZE + 1, Len(data))
DeclaradaEn(data) == desde_bytes(Slice(data, 0, HEADER_SIZE)).longitud_carga

\* C21: decoding a frame that holds fewer bytes after its header than
\* longitud_carga declares fails, whatever the crc32 field is, and with an
\* outcome that is not the one of a CRC mismatch.  (Stated as claimed;
\* checked under SpecTramas.)
C21_CortaEsMalformada ==
  (/\ Decodificada
   /\ Len(codificado) >= HEADER_SIZE
   /\ Len(ColaDe(codificado)) < DeclaradaEn(codificado))
    => (~ decodificado.ok /\ decodificado.error # "crc")

\* C22: decodificar returns a message only for a frame whose header declares
\* exactly the number of bytes that follow it and carries their CRC-32.
\* (Stated as claimed; checked under SpecTramas.)
C22_SoloTramasExactas ==
  (Decodificada /\ decodificado.ok)
    => (/\ DeclaradaEn(codificado) = Len(ColaDe(codificado))
        /\ desde_bytes(Slice(codificado, 0, HEADER_SIZE)).crc32 = crc32(ColaDe(codificado)))

\* C23: encoding the message decodificar returned gives back the header that
\* was received, field by field, and the payload bytes that header declares,
\* also when fields are zero.  (Stated as claimed; checked under SpecTramas.)
C23_CamposTalCual ==
  pcCodec = "recodificada"
    => (/\ Slice(recodificado, 0, HEADER_SIZE) = Slice(codificado, 0, HEADER_SIZE)
        /\ ColaDe(recodificado) =
             Slice(codificado, HEADER_SIZE, HEADER_SIZE + DeclaradaEn(codificado)))


\* C24: the receive loop never takes as unexpected the RESPUESTA that answers
\* the request the running enviar_texto call has written and not yet
\* recorded in waiting_for_response_id.  (Stated as claimed; checked under
\* SpecPares.)
C24_RespuestaNoPerdida ==
  [][ \A p \in Peers :
        (/\ pcBucle[p] = "chk_resp"
         /\ pcBucle'[p] = "recibir"
         /\ salida'[p].que = "inesperada")
          => ~ (/\ pcEnviar[p] \in {"set_estado", "set_waiting"}
                /\ locEnviar[p].mensaje.id_mensaje = locBucle[p].mensaje.id_mensaje) ]_vars


\* No handler is running at p and nothing p wrote is still on its way.
EnReposo(p) ==
  /\ pcEnviar[p] = "listo"
  /\ pcBucle[p] = "recibir"
  /\ conn[p] = << >>

\* C25: two coordinators on one connection never reach the state in which
\* both wait for an answer, no frame is in flight and no handler is running,
\* so that every further enviar_texto is refused at both ends and neither
\* ever returns to Idle.  (Stated as claimed; checked under SpecPares.)
C25_SinBloqueoMutuo ==
  ~ (\A p \in Peers :
       /\ waiting_for_response_id[p] # None
       /\ pending_request_id[p] = None
       /\ EnReposo(p))


\* The step writes a frame on Yo's side of the connection; the frame written.
EscribeTrama == Len(conn'[Yo]) = Len(conn[Yo]) + 1
TramaEscrita == decodificar(conn'[Yo][Len(conn'[Yo])]).mensaje

\* The step writes a RESPUESTA.
EscribeRespuesta ==
  EscribeTrama /\ TramaEscrita.cabecera.tipo_operacion = TIPO_RESPUESTA

\* C26: with enviar_texto and the receive loop interleaved, (1) a RESPUESTA
\* is written only by enviar_texto and carries the id pending_request_id
\* holds at that moment; (2) pending_request_id gets an id only from the
\* receive loop, at the end of an iteration that has written the ACK for
\* that id; (3) once the RESPUESTA is written no other RESPUESTA is written
\* and pending_request_id keeps that id until the same call clears it.  So
\* every RESPUESTA answers an accepted, unanswered request, and one
\* acceptance is answered at most once.
C26_UnaRespuestaPorSolicitud ==
  /\ [][ EscribeRespuesta
          => /\ pcEnviar[Yo] = "send_resp"
             /\ pcEnviar'[Yo] = "clr_pending"
             /\ pending_request_id[Yo] # None
             /\ TramaEscrita.id_mensaje = pending_request_id[Yo]
             /\ pending_request_id'[Yo] = pending_request_id[Yo] ]_vars
  /\ [][ (pending_request_id'[Yo] # pending_request_id[Yo] /\ pending_request_id'[Yo] # None)
          => /\ pending_request_id[Yo] = None
             /\ pcBucle[Yo] = "set_pending"
             /\ Len(locBucle[Yo].tramas) = 1
             /\ EsTrama(locBucle[Yo].tramas[1], TIPO_RECIBIDO, pending_request_id'[Yo], << >>) ]_vars
  /\ [][ pcEnviar[Yo] = "clr_pending"
          => /\ ~ EscribeRespuesta
             /\ \/ pcEnviar'[Yo] = "clr_pending" /\ pending_request_id'[Yo] = pending_request_id[Yo]
                \/ pcEnviar'[Yo] = "listo" /\ pending_request_id'[Yo] = None ]_vars

\* C26 witness: the answer to the accepted request is on the connection,
\* pending_request_id still holds its id, and the receive loop is in the
\* middle of another REQUEST.
C26_Witness ==
  /\ pcEnviar[Yo] = "clr_pending"
  /\ pending_request_id[Yo] # None
  /\ conn[Yo] # << >>
  /\ EsTrama(conn[Yo][Len(conn[Yo])], TIPO_RESPUESTA, pending_request_id[Yo], locEnviar[Yo].texto)
  /\ pcBucle[Yo] = "chk_pending"


\* C27: recibir_bytes returns the empty sequence only when the sending side
\* has closed the connection; a frame with length prefix 0 on a connection
\* that stays open is not reported that way.  (Stated as claimed; checked
\* under SpecCable.)
C27_VacioSoloAlCierre ==
  \A i \in 1..Len(entregados) :
    entregados[i] = << >> => cerradoTx


\* C28: the status recorded in estados for an id never goes back: no step
\* replaces RECIBIDO by ENVIADO, or LEIDO by RECIBIDO or ENVIADO, whatever
\* the interleaving of enviar_texto and the receive loop.  (Stated as
\* claimed; checked under SpecPares.)
C28_EstadoSoloAvanza ==
  [][ \A p \in Peers : \A id \in DOMAIN estados[p] :
        /\ id \in DOMAIN estados'[p]
        /\ estados'[p][id] >= estados[p][id] ]_vars

====
